---- MODULE Spec2Model ----
(***************************************************************************)
(* A model of the local CSI driver: the CSI controller handlers            *)
(* (pkg/driver/controller.go), the volume manager                          *)
(* (pkg/driver/volume/volumemanager.go), the state manager of package      *)
(* volume and the XFS limiter                                              *)
(* (pkg/driver/limit/xfs/limit.go), together with the parts of the         *)
(* filesystem they act on: volume directories with their XFS project id,   *)
(* state files and the project quota table.                                *)
(*                                                                         *)
(* Every request is a process that takes one step per lock acquisition or  *)
(* syscall, so that requests interleave as the gRPC server runs them.      *)
(***************************************************************************)
EXTENDS Integers, FiniteSets, Sequences, TLC

----------------------------------------------------------------------------
(* Bounds of the model.                                                    *)

\* Number of volume ids uuid.MustRandom() hands out in one behaviour.
MaxVolumeIDs == 2

\* Number of syscall failures injected in one behaviour.
MaxFaults == 1

\* statfs block count of the volumes root.
Blocks == 3

\* Number of direct StateManager calls one caller makes in one behaviour.
MaxCalls == 2

\* Number of bind mounts stacked on one target path.
MaxMounts == 2

----------------------------------------------------------------------------
(* Program constants and the environment.                                  *)

\* statfs block size of the volumes root.
Bsize == 4096

MetadataFileMaxSize == 4096

\* A basic block of XFS quota accounting is 2^9 bytes.
BasicBlockSize == 512

Creators == {"c1", "c2"}
Deleters == {"d1"}

Names == {"v1", "v2"}

\* Requested sizes (CapacityRange.RequiredBytes).
Sizes == {1000, 8192}

\* The Go zero value of a volume id (the empty string).
EmptyID == 0
VolumeIDs == 1 .. MaxVolumeIDs
\* A non-empty id the driver never issued.
UnknownID == MaxVolumeIDs + 1

\* Project ids rand.Uint32() draws from; 0 is the project of untagged files.
ProjectIDs == 0 .. MaxVolumeIDs

NoProcess == "none"

VARIABLES
    volumes,            \* StateManager.volumes: id -> VolumeState
    volumeNameToID,     \* StateManager.volumeNameToID: name -> id
    volumesTotalSize,   \* StateManager.volumesTotalSize
    files,              \* state files <root>/<id>.json: id -> content
    dirs,               \* volume directories <root>/<id>: id -> XFS project id
    limit,              \* XFS project quota table: project id -> block hard limit
    mut,                \* driver.mut: the request holding it, or NoProcess
    nextID,             \* the next id uuid.MustRandom() returns
    creq,               \* CreateVolume requests: creator -> locals
    dreq,               \* DeleteVolume requests: deleter -> locals
    faults,             \* number of syscall failures injected so far
    solo,               \* the request that has run without any other request stepping
    track,              \* capacity bookkeeping of the last volume created
    sreq,               \* direct StateManager calls: caller -> locals
    boot,               \* LocalDriverOptions.run: position, mount options, result
    targets,            \* target paths: path -> directory present, mounts on it
    nreq                \* node and read-only RPCs: caller -> locals

vars == <<volumes, volumeNameToID, volumesTotalSize, files, dirs, limit, mut,
          nextID, creq, dreq, faults, solo, track, sreq, boot, targets, nreq>>

----------------------------------------------------------------------------
(* Go maps.                                                                *)

Put(m, k, v) == [x \in DOMAIN m \cup {k} |-> IF x = k THEN v ELSE m[x]]

Drop(m, k) == [x \in DOMAIN m \ {k} |-> m[x]]

EmptyMap == [x \in {} |-> 0]

RECURSIVE SumSizes(_)
SumSizes(m) ==
    IF DOMAIN m = {} THEN 0
    ELSE LET k == CHOOSE x \in DOMAIN m : TRUE
         IN  m[k].size + SumSizes(Drop(m, k))

----------------------------------------------------------------------------
(* State manager.                                                          *)

VolumeState(name, id, limitID, size) ==
    [name |-> name, id |-> id, limitID |-> limitID, size |-> size]

\* A nil *VolumeState.
Nil == [nil |-> TRUE]

\* The content of a state file that os.Create truncated and Encode did not
\* fill: the empty document.
Truncated == << >>

\* Faulty variant: the size member is left out of the document.
jsonEncode_OmitSize(volume) ==
    << <<"name", volume.name>>, <<"id", volume.id>>,
       <<"limitID", volume.limitID>> >>

\* json.NewEncoder(f).Encode(volume): the members of the JSON object, named
\* by the json tags of VolumeState, in field order.
jsonEncode(volume) ==
    << <<"name", volume.name>>, <<"id", volume.id>>,
       <<"limitID", volume.limitID>>, <<"size", volume.size>> >>

\* The error of json.NewDecoder(f).Decode on a document that is no object.
ParseError == [err |-> "parse"]

\* json.NewDecoder(f).Decode(vs): each field is read from the member its tag
\* names and keeps its zero value when the member is missing; an empty
\* document is an error.
jsonDecode(doc) ==
    IF doc = << >> THEN ParseError
    ELSE LET member(key, zero) ==
                 IF \E i \in 1 .. Len(doc) : doc[i][1] = key
                 THEN doc[CHOOSE i \in 1 .. Len(doc) : doc[i][1] = key][2]
                 ELSE zero
         IN  VolumeState(member("name", ""), member("id", EmptyID),
                         member("limitID", 0), member("size", 0))

GetVolumeStateByID(id) ==
    IF id \in DOMAIN volumes THEN volumes[id] ELSE Nil

GetVolumeStateByName(name) ==
    GetVolumeStateByID(IF name \in DOMAIN volumeNameToID
                       THEN volumeNameToID[name] ELSE EmptyID)

GetTotalVolumesSize == volumesTotalSize

GetVolumes == {volumes[id] : id \in DOMAIN volumes}

----------------------------------------------------------------------------
(* Volume manager and limiter helpers.                                     *)

\* Faulty variant: nothing is reserved for the metadata files.
GetAvailableCapacity_NoReserve(count, total) == Bsize * Blocks - total

GetAvailableCapacity(count, total) ==
    Bsize * Blocks - total - (count + 1) * MetadataFileMaxSize

\* Faulty variant: blocks of 1024 bytes instead of basic blocks.
bytesToBlocks_Shift10(capacity) == capacity \div (2 * BasicBlockSize)

bytesToBlocks(capacity) == capacity \div BasicBlockSize

\* Faulty variant: only a project with a limit has a quota entry.
GetQuota_LimitsOnly(id) == limit[id] # 0

\* quotactl.GetQuota succeeds: the project has a limit or owns an inode.
GetQuota(id) ==
    \/ limit[id] # 0
    \/ \E d \in DOMAIN dirs : dirs[d] = id

\* The ids findFreeProjectID can return.
findFreeProjectID == {id \in ProjectIDs : ~GetQuota(id)}

SetLimit(projectID, capacityBytes) ==
    [limit EXCEPT ![projectID] = bytesToBlocks(capacityBytes)]

\* Faulty variant: the hard limit is left as it is.
RemoveLimit_Keep(limitID) == limit

RemoveLimit(limitID) == SetLimit(limitID, 0)

\* driver.GetCapacity, when no request commits between its two reads.
GetCapacity ==
    GetAvailableCapacity(Cardinality(DOMAIN volumes), GetTotalVolumesSize)

----------------------------------------------------------------------------
(* CSI requests and their validation (pkg/driver/driver.go).               *)

\* The configured node name.
NodeName == "node-a"

NodeNameTopologyKey == "local.csi.scylladb.com/node"

\* A csi.VolumeCapability: its access mode and its access type with, for a
\* mount, the filesystem type; "none" is a capability with no access type.
VolumeCapability(mode, access, fsType) ==
    [mode |-> mode, access |-> access, fsType |-> fsType]

Capabilities ==
    {VolumeCapability(m, "mount", f) :
        m \in {"SINGLE_NODE_WRITER", "MULTI_NODE_MULTI_WRITER"},
        f \in {"", "xfs", "ext4"}}
    \cup {VolumeCapability(m, a, "") :
             m \in {"SINGLE_NODE_WRITER", "MULTI_NODE_MULTI_WRITER"},
             a \in {"block", "none"}}

volumeCapAccessModes == {"SINGLE_NODE_WRITER"}

SupportedAccessTypes == {"mount"}

SupportedFilesystems == {"", "xfs"}

\* Faulty variant: the filesystem type is not looked at.
validateVolumeCapabilities_AnyFs(volCaps) ==
    UNION {
        (IF volCaps[i].mode \notin volumeCapAccessModes
         THEN {"unsupported access mode"} ELSE {})
        \cup (IF volCaps[i].access # "mount"
              THEN {"only filesystem volumes are supported"} ELSE {})
        : i \in 1 .. Len(volCaps)}

\* The errors validateVolumeCapabilities aggregates; none is a nil error.
validateVolumeCapabilities(volCaps) ==
    UNION {
        (IF volCaps[i].mode \notin volumeCapAccessModes
         THEN {"unsupported access mode"} ELSE {})
        \cup (IF volCaps[i].access # "mount"
              THEN {"only filesystem volumes are supported"} ELSE {})
        \cup (IF volCaps[i].access = "mount"
                 /\ volCaps[i].fsType \notin SupportedFilesystems
              THEN {"unsupported fsType"} ELSE {})
        : i \in 1 .. Len(volCaps)}

\* The errors validateVolumeParameters aggregates: one for every key.
validateVolumeParameters(parameters) ==
    {<<"unsupported volume parameter key", k>> : k \in DOMAIN parameters}

\* getNodeAccessibleTopology().Segments
getNodeAccessibleTopology == (NodeNameTopologyKey :> NodeName)

\* The segment maps of getVolumeAccessibleTopology().
getVolumeAccessibleTopology == <<getNodeAccessibleTopology>>

\* Faulty variant: it is enough that the node is one of the requisite
\* topologies.
AccessibilitySatisfied_Member(requirements) ==
    \/ ~requirements.present
    \/ Len(requirements.requisite) = 0
    \/ \E i \in 1 .. Len(requirements.requisite) :
          requirements.requisite[i] = getNodeAccessibleTopology

\* driver.CreateVolume: the accessibility check.
AccessibilitySatisfied(requirements) ==
    \/ ~requirements.present
    \/ Len(requirements.requisite) = 0
    \/ requirements.requisite = getVolumeAccessibleTopology

\* driver.CreateVolume up to the name lookup: the code of the error it
\* returns, or "OK".
CreateVolumeValidate(req) ==
    LET caps == req.caps
        block == \E i \in 1 .. Len(caps) : caps[i].access = "block"
        mount == \E i \in 1 .. Len(caps) :
                    caps[i].access # "block" /\ caps[i].access = "mount"
        last == caps[Len(caps)]
    IN  IF req.name = "" THEN "InvalidArgument"
        ELSE IF caps = << >> THEN "InvalidArgument"
        ELSE IF validateVolumeCapabilities(caps) # {} THEN "InvalidArgument"
        ELSE IF validateVolumeParameters(req.parameters) # {}
             THEN "InvalidArgument"
        ELSE IF \E i \in 1 .. Len(caps) : caps[i].access \notin {"block", "mount"}
             THEN "InvalidArgument"
        ELSE IF block /\ mount THEN "InvalidArgument"
        ELSE IF last.access \notin SupportedAccessTypes THEN "InvalidArgument"
        ELSE IF last.fsType \notin SupportedFilesystems THEN "InvalidArgument"
        ELSE IF ~AccessibilitySatisfied(req.requirements)
             THEN "ResourceExhausted"
        ELSE "OK"

\* Requests the callers send.
GoodCapability == VolumeCapability("SINGLE_NODE_WRITER", "mount", "xfs")

CapabilityLists ==
    {<< >>}
    \cup {<<cap>> : cap \in Capabilities}
    \cup {<<GoodCapability, cap>> : cap \in Capabilities}
    \cup {<<cap, GoodCapability>> : cap \in Capabilities}

NoParameters == [k \in {} |-> ""]

ParameterMaps == {NoParameters, ("type" :> "fast")}

NoRequirements == [present |-> FALSE, requisite |-> << >>]

\* CreateVolume requests: a name or none, a size, and at most one of the
\* capabilities, the parameters and the accessibility requirements differs
\* from those of the plain request.
CreateVolumeRequests ==
    LET requisites ==
            {<< >>,
             <<getNodeAccessibleTopology>>,
             <<(NodeNameTopologyKey :> "node-b")>>,
             <<getNodeAccessibleTopology, getNodeAccessibleTopology>>,
             <<getNodeAccessibleTopology, (NodeNameTopologyKey :> "node-b")>>,
             <<(NodeNameTopologyKey :> NodeName) @@ ("zone" :> "z1")>>,
             <<("zone" :> NodeName)>>}
        accessibilityRequirements ==
            {NoRequirements}
            \cup {[present |-> TRUE, requisite |-> r] : r \in requisites}
        plain(caps, parameters, requirements) ==
            (IF caps = <<GoodCapability>> THEN 0 ELSE 1)
            + (IF parameters = NoParameters THEN 0 ELSE 1)
            + (IF requirements = NoRequirements THEN 0 ELSE 1)
    IN  {[name |-> name, capacity |-> capacity, caps |-> caps,
          parameters |-> parameters, requirements |-> requirements] :
            name \in Names \cup {""}, capacity \in Sizes,
            <<caps, parameters, requirements>> \in
               {t \in CapabilityLists \X ParameterMaps
                         \X accessibilityRequirements :
                   plain(t[1], t[2], t[3]) <= 1}}

----------------------------------------------------------------------------
(* Requests.                                                               *)

Processes == Creators \cup Deleters

IdleCreate ==
    [pc |-> "idle", name |-> "", capacity |-> 0, volumeID |-> EmptyID,
     count |-> 0, total |-> 0, availableCapacity |-> 0, limitID |-> 0,
     code |-> "", err |-> "", ret |-> EmptyID, req |-> Nil]

IdleDelete ==
    [pc |-> "idle", volID |-> EmptyID, vs |-> Nil, code |-> "", attempt |-> 0]

NoTrack == [id |-> EmptyID, before |-> 0, deleted |-> FALSE]

\* Callers of SaveVolumeState and DeleteVolumeState on one StateManager.
StoreCallers == {"s1", "s2"}

\* Locals of a StateManager call: the operation, its argument, whether the
\* descriptor os.Create returned still names the file at statePath, the
\* error returned, and the record and total size found when the call began.
IdleStore ==
    [pc |-> "idle", op |-> "", v |-> Nil, id |-> EmptyID, linked |-> FALSE,
     err |-> "", calls |-> 0, vs0 |-> Nil, total0 |-> 0]

\* XFS mount options of the volumes root that enable project quota.
QuotaOptions == {"pquota", "prjquota"}

\* LocalDriverOptions.run has reached server.Serve: the filesystem and the
\* mount options of the volumes root, the limiter in use, the volumes whose
\* quota is still to be restored, the error run returned, and whether an RPC
\* was handled.
Serving ==
    [pc |-> "serving", fs |-> "xfs", opts |-> {"rw", "prjquota"},
     limiter |-> "xfs", pending |-> {}, err |-> "", handled |-> FALSE]

\* The caller of the node RPCs and of the read-only controller RPCs.
NodeCallers == {"n1"}

\* Locals of such an RPC: the request, the code returned, the mount options,
\* the error of os.Remove, the volume count read, the capacity, node info or
\* confirmation returned, and the volume id of the CreateVolume request that
\* held d.mut when the RPC began.
IdleNode ==
    [pc |-> "idle", op |-> "", req |-> Nil, code |-> "", options |-> << >>,
     err |-> "", count |-> 0, capacity |-> 0, info |-> Nil, confirmed |-> Nil,
     during |-> EmptyID]

\* Target paths the orchestrator supplies.
TargetPaths == {"/t/path"}

\* A target path that does not exist; mounts lists the volume ids of the
\* directories mounted on a path, the topmost last.
NoTarget == [exists |-> FALSE, mounts |-> << >>]

\* The request is not executing: it has not begun or it has returned.
Quiescent(p) ==
    IF p \in Creators THEN creq[p].pc \in {"idle", "done"}
    ELSE dreq[p].pc \in {"idle", "done", "failed"}

SoloBegin(p) ==
    solo' = IF \A q \in Processes \ {p} : Quiescent(q) THEN p ELSE NoProcess

SoloStep(p) == solo' = IF solo = p THEN p ELSE NoProcess

\* The capacity bookkeeping ends when any other request changes the store.
TrackStep ==
    track' = IF volumes' = volumes /\ volumesTotalSize' = volumesTotalSize
             THEN track ELSE NoTrack

Init ==
    /\ volumes = EmptyMap
    /\ volumeNameToID = EmptyMap
    /\ volumesTotalSize = 0
    /\ files = EmptyMap
    /\ dirs = EmptyMap
    /\ limit = [p \in ProjectIDs |-> 0]
    /\ mut = NoProcess
    /\ nextID = 1
    /\ creq = [c \in Creators |-> IdleCreate]
    /\ dreq = [d \in Deleters |-> IdleDelete]
    /\ faults = 0
    /\ solo = NoProcess
    /\ track = NoTrack
    /\ sreq = [p \in StoreCallers |-> IdleStore]
    /\ boot = Serving
    /\ targets = [t \in TargetPaths |-> NoTarget]
    /\ nreq = [n \in NodeCallers |-> IdleNode]

CanInject == faults < MaxFaults

Inject == faults' = faults + 1

----------------------------------------------------------------------------
(* driver.CreateVolume and VolumeManager.CreateVolume.                     *)

\* Faulty variant: the request returns without unlocking d.mut.
CreateReturns_KeepLock(c, code, err, ret) ==
    /\ creq' = [creq EXCEPT ![c].pc = "done", ![c].code = code,
                            ![c].err = err, ![c].ret = ret]
    /\ mut' = mut

\* Faulty variant: d.mut is unlocked only when the request succeeds.
CreateReturns_LockedOnError(c, code, err, ret) ==
    /\ creq' = [creq EXCEPT ![c].pc = "done", ![c].code = code,
                            ![c].err = err, ![c].ret = ret]
    /\ mut' = IF mut = c /\ code = "OK" THEN NoProcess ELSE mut

\* The request returns: the deferred d.mut.Unlock() runs if the lock is held.
CreateReturns(c, code, err, ret) ==
    /\ creq' = [creq EXCEPT ![c].pc = "done", ![c].code = code,
                            ![c].err = err, ![c].ret = ret]
    /\ mut' = IF mut = c THEN NoProcess ELSE mut

\* Name lookup; an existing volume is returned or refused, a new one gets an id.
CreateLookup(c, name, capacity, req) ==
    /\ LET vs == GetVolumeStateByName(name)
           r  == [IdleCreate EXCEPT !.name = name, !.capacity = capacity,
                                   !.req = req]
       IN  IF vs # Nil
           THEN /\ creq' = [creq EXCEPT ![c] =
                       IF vs.size # capacity
                       THEN [r EXCEPT !.pc = "done", !.code = "AlreadyExists"]
                       ELSE [r EXCEPT !.pc = "done", !.code = "OK", !.ret = vs.id]]
                /\ UNCHANGED nextID
           ELSE /\ nextID <= MaxVolumeIDs
                /\ creq' = [creq EXCEPT ![c] =
                       [r EXCEPT !.pc = "lock", !.volumeID = nextID]]
                /\ nextID' = nextID + 1
    /\ SoloBegin(c)
    /\ UNCHANGED <<volumes, volumeNameToID, volumesTotalSize, files, dirs,
                   limit, mut, dreq, faults, track>>
    /\ UNCHANGED <<sreq, boot>>
    /\ UNCHANGED <<targets, nreq>>

\* driver.CreateVolume called with a request that passes validation.
CreateVolume(c, name, capacity) ==
    /\ creq[c].pc \in {"idle", "done"}
    /\ CreateLookup(c, name, capacity, Nil)

\* driver.CreateVolume: validation of the request, then the name lookup.
CreateVolumeRequest(c, req) ==
    IF CreateVolumeValidate(req) # "OK"
    THEN /\ creq[c].pc \in {"idle", "done"}
         /\ creq' = [creq EXCEPT ![c] =
                [IdleCreate EXCEPT !.pc = "done", !.name = req.name,
                                   !.capacity = req.capacity, !.req = req,
                                   !.code = CreateVolumeValidate(req)]]
         /\ SoloBegin(c)
         /\ UNCHANGED <<volumes, volumeNameToID, volumesTotalSize, files, dirs,
                        limit, mut, nextID, dreq, faults, track, sreq, boot,
                        targets, nreq>>
    ELSE /\ creq[c].pc \in {"idle", "done"}
         /\ CreateLookup(c, req.name, req.capacity, req)

\* Faulty variant: the handler does not wait for d.mut.
MutFree_NoMutex == TRUE

MutFree == mut = NoProcess

\* d.mut.Lock()
CreateLock(c) ==
    /\ creq[c].pc = "lock"
    /\ MutFree
    /\ mut' = c
    /\ creq' = [creq EXCEPT ![c].pc = "count"]
    /\ SoloStep(c)
    /\ UNCHANGED <<volumes, volumeNameToID, volumesTotalSize, files, dirs,
                   limit, nextID, dreq, faults, track>>
    /\ UNCHANGED <<sreq, boot>>
    /\ UNCHANGED <<targets, nreq>>

\* GetAvailableCapacity: len(v.state.GetVolumes())
CreateCount(c) ==
    /\ creq[c].pc = "count"
    /\ creq' = [creq EXCEPT ![c].pc = "total",
                            ![c].count = Cardinality(DOMAIN volumes)]
    /\ SoloStep(c)
    /\ UNCHANGED <<volumes, volumeNameToID, volumesTotalSize, files, dirs,
                   limit, mut, nextID, dreq, faults, track>>
    /\ UNCHANGED <<sreq, boot>>
    /\ UNCHANGED <<targets, nreq>>

\* GetAvailableCapacity: v.state.GetTotalVolumesSize(), then the comparison.
CreateTotal(c) ==
    /\ creq[c].pc = "total"
    /\ LET total == GetTotalVolumesSize
           availableCapacity == GetAvailableCapacity(creq[c].count, total)
       IN  IF creq[c].capacity > availableCapacity
           THEN /\ creq' = [creq EXCEPT ![c].pc = "done", ![c].total = total,
                                ![c].availableCapacity = availableCapacity,
                                ![c].code = "OutOfRange"]
                /\ mut' = NoProcess
           ELSE /\ creq' = [creq EXCEPT ![c].pc = "mkdir", ![c].total = total,
                                ![c].availableCapacity = availableCapacity]
                /\ UNCHANGED mut
    /\ SoloStep(c)
    /\ UNCHANGED <<volumes, volumeNameToID, volumesTotalSize, files, dirs,
                   limit, nextID, dreq, faults, track>>
    /\ UNCHANGED <<sreq, boot>>
    /\ UNCHANGED <<targets, nreq>>

\* VolumeManager.CreateVolume: os.Mkdir; a new directory is in project 0.
CreateMkdir(c) ==
    /\ creq[c].pc = "mkdir"
    /\ \/ /\ dirs' = IF creq[c].volumeID \in DOMAIN dirs THEN dirs
                     ELSE Put(dirs, creq[c].volumeID, 0)
          /\ creq' = [creq EXCEPT ![c].pc = "newlimit"]
          /\ UNCHANGED <<mut, faults>>
       \/ /\ CanInject
          /\ Inject
          /\ CreateReturns(c, "Internal", "mkdir", EmptyID)
          /\ UNCHANGED dirs
    /\ SoloStep(c)
    /\ UNCHANGED <<volumes, volumeNameToID, volumesTotalSize, files, limit,
                   nextID, dreq, track>>
    /\ UNCHANGED <<sreq, boot>>
    /\ UNCHANGED <<targets, nreq>>

\* All maxRetries draws of rand.Uint32() can hit ids that have a quota entry
\* as soon as one id has one; the model counts that run of draws as an
\* injected failure.
ProbesCanAllHit == \E id \in ProjectIDs : GetQuota(id)

\* limiter.NewLimit; on failure os.Remove(path).
CreateNewLimit(c) ==
    /\ creq[c].pc = "newlimit"
    /\ \/ \E projectID \in findFreeProjectID :
             /\ dirs' = [dirs EXCEPT ![creq[c].volumeID] = projectID]
             /\ creq' = [creq EXCEPT ![c].pc = "save", ![c].limitID = projectID]
             /\ UNCHANGED <<mut, faults>>
       \/ /\ CanInject
          /\ Inject
          /\ dirs' = Drop(dirs, creq[c].volumeID)
          /\ CreateReturns(c, "Internal", "newlimit", EmptyID)
       \/ /\ \/ findFreeProjectID = {} /\ UNCHANGED faults
             \/ /\ ProbesCanAllHit
                /\ CanInject
                /\ Inject
          /\ dirs' = Drop(dirs, creq[c].volumeID)
          /\ CreateReturns(c, "Internal", "exhausted", EmptyID)
    /\ SoloStep(c)
    /\ UNCHANGED <<volumes, volumeNameToID, volumesTotalSize, files, limit,
                   nextID, dreq, track>>
    /\ UNCHANGED <<sreq, boot>>
    /\ UNCHANGED <<targets, nreq>>

\* The record VolumeManager.CreateVolume saves.
volumeState(c) ==
    VolumeState(creq[c].name, creq[c].volumeID, creq[c].limitID, creq[c].capacity)

\* SaveVolumeState: os.Create and Encode. When the save fails CreateVolume
\* removes the directory and the limit.
CreateSaveFile(c) ==
    /\ creq[c].pc = "save"
    /\ \/ /\ files' = Put(files, creq[c].volumeID, jsonEncode(volumeState(c)))
          /\ creq' = [creq EXCEPT ![c].pc = "saveindex"]
          /\ UNCHANGED <<dirs, limit, mut, faults>>
       \/ /\ CanInject
          /\ Inject
          /\ \/ /\ UNCHANGED files
                /\ CreateReturns(c, "Internal", "create", EmptyID)
             \/ /\ files' = Put(files, creq[c].volumeID, Truncated)
                /\ CreateReturns(c, "Internal", "encode", EmptyID)
          /\ dirs' = Drop(dirs, creq[c].volumeID)
          /\ limit' = RemoveLimit(creq[c].limitID)
    /\ SoloStep(c)
    /\ UNCHANGED <<volumes, volumeNameToID, volumesTotalSize, nextID, dreq,
                   track>>
    /\ UNCHANGED <<sreq, boot>>
    /\ UNCHANGED <<targets, nreq>>

\* Faulty variant: the total size is not updated.
SaveVolumeStateIndex_NoTotal(volume) ==
    /\ volumes' = Put(volumes, volume.id, volume)
    /\ volumeNameToID' = Put(volumeNameToID, volume.name, volume.id)
    /\ UNCHANGED volumesTotalSize

\* SaveVolumeState: the indices and the total size, under s.mut.
SaveVolumeStateIndex(volume) ==
    /\ volumes' = Put(volumes, volume.id, volume)
    /\ volumeNameToID' = Put(volumeNameToID, volume.name, volume.id)
    /\ volumesTotalSize' = volumesTotalSize + volume.size

\* Faulty variant: the size is not subtracted from the total.
DeleteVolumeStateIndex_KeepTotal(id) ==
    IF id \in DOMAIN volumes
    THEN /\ volumeNameToID' = Drop(volumeNameToID, volumes[id].name)
         /\ volumes' = Drop(volumes, id)
         /\ UNCHANGED volumesTotalSize
    ELSE UNCHANGED <<volumes, volumeNameToID, volumesTotalSize>>

\* Faulty variant: the record is emptied and kept.
DeleteVolumeStateIndex_Zero(id) ==
    IF id \in DOMAIN volumes
    THEN /\ volumeNameToID' = Drop(volumeNameToID, volumes[id].name)
         /\ volumes' = [volumes EXCEPT ![id].size = 0]
         /\ volumesTotalSize' = volumesTotalSize - volumes[id].size
    ELSE UNCHANGED <<volumes, volumeNameToID, volumesTotalSize>>

\* Faulty variant: only the name index is updated.
DeleteVolumeStateIndex_NameOnly(id) ==
    IF id \in DOMAIN volumes
    THEN /\ volumeNameToID' = Drop(volumeNameToID, volumes[id].name)
         /\ UNCHANGED <<volumes, volumesTotalSize>>
    ELSE UNCHANGED <<volumes, volumeNameToID, volumesTotalSize>>

\* DeleteVolumeState: the indices and the total size, under s.mut.
DeleteVolumeStateIndex(id) ==
    IF id \in DOMAIN volumes
    THEN /\ volumeNameToID' = Drop(volumeNameToID, volumes[id].name)
         /\ volumes' = Drop(volumes, id)
         /\ volumesTotalSize' = volumesTotalSize - volumes[id].size
    ELSE UNCHANGED <<volumes, volumeNameToID, volumesTotalSize>>

\* SaveVolumeState: the index update, then the deferred f.Close(), whose
\* error is returned after the indices were updated.
CreateSaveIndex(c) ==
    /\ creq[c].pc = "saveindex"
    /\ SaveVolumeStateIndex(volumeState(c))
    /\ \/ /\ creq' = [creq EXCEPT ![c].pc = "setlimit"]
          /\ UNCHANGED <<dirs, limit, mut, faults>>
       \/ /\ CanInject
          /\ Inject
          /\ dirs' = Drop(dirs, creq[c].volumeID)
          /\ limit' = RemoveLimit(creq[c].limitID)
          /\ CreateReturns(c, "Internal", "close", EmptyID)
    /\ SoloStep(c)
    /\ TrackStep
    /\ UNCHANGED <<files, nextID, dreq>>
    /\ UNCHANGED <<sreq, boot>>
    /\ UNCHANGED <<targets, nreq>>

\* limiter.SetLimit; on failure the directory, the limit and the state go.
CreateSetLimit(c) ==
    /\ creq[c].pc = "setlimit"
    /\ \/ /\ limit' = SetLimit(creq[c].limitID, creq[c].capacity)
          /\ CreateReturns(c, "OK", "", creq[c].volumeID)
          /\ track' = IF solo = c
                      THEN [id |-> creq[c].volumeID,
                            before |-> creq[c].availableCapacity,
                            deleted |-> FALSE]
                      ELSE NoTrack
          /\ UNCHANGED <<volumes, volumeNameToID, volumesTotalSize, files,
                         dirs, faults>>
       \/ /\ CanInject
          /\ Inject
          /\ dirs' = Drop(dirs, creq[c].volumeID)
          /\ limit' = RemoveLimit(creq[c].limitID)
          /\ files' = Drop(files, creq[c].volumeID)
          /\ DeleteVolumeStateIndex(creq[c].volumeID)
          /\ CreateReturns(c, "Internal", "setlimit", EmptyID)
          /\ TrackStep
    /\ SoloStep(c)
    /\ UNCHANGED <<nextID, dreq>>
    /\ UNCHANGED <<sreq, boot>>
    /\ UNCHANGED <<targets, nreq>>

----------------------------------------------------------------------------
(* driver.DeleteVolume and VolumeManager.DeleteVolume.                     *)

\* Ids a caller can hold: ids returned or abandoned by CreateVolume, and any
\* other non-empty string.
DeleteTargets ==
    {id \in VolumeIDs :
        /\ id < nextID
        /\ \A c \in Creators :
              creq[c].volumeID = id => creq[c].pc \in {"idle", "done"}}
    \cup {UnknownID}

\* v.state.GetVolumeStateByID(volID)
DeleteLookup(d, volID, attempt) ==
    /\ dreq' = [dreq EXCEPT ![d] = [pc |-> "rmdir", volID |-> volID,
                                    vs |-> GetVolumeStateByID(volID),
                                    code |-> "", attempt |-> attempt]]
    /\ SoloBegin(d)
    /\ UNCHANGED <<volumes, volumeNameToID, volumesTotalSize, files, dirs,
                   limit, mut, nextID, creq, faults, track>>
    /\ UNCHANGED <<sreq, boot>>
    /\ UNCHANGED <<targets, nreq>>

DeleteVolume(d, volID) ==
    /\ dreq[d].pc \in {"idle", "done"}
    /\ volID \in DeleteTargets
    /\ DeleteLookup(d, volID, 1)

\* The caller calls again after an error.
DeleteRetry(d) ==
    /\ dreq[d].pc = "failed"
    /\ DeleteLookup(d, dreq[d].volID, dreq[d].attempt + 1)

DeleteFails(d) ==
    /\ CanInject
    /\ Inject
    /\ dreq' = [dreq EXCEPT ![d].pc = "failed", ![d].code = "Internal"]

\* os.RemoveAll(path): whatever filepath.Join(volumesDir, volID) names is
\* removed, the directory of a volume or, as the state files are kept in
\* volumesDir too, the state file of a volume.  The id string "<id>.json",
\* the name of the state file of volume id, is written as the negative of id.
DeleteRemoveAll(d) ==
    /\ dreq[d].pc = "rmdir"
    /\ \/ /\ dirs' = Drop(dirs, dreq[d].volID)
          /\ files' = LET volID == dreq[d].volID
                      IN  Drop(files, IF volID < 0 THEN 0 - volID ELSE EmptyID)
          /\ dreq' = [dreq EXCEPT ![d].pc =
                         IF dreq[d].vs # Nil THEN "rmlimit" ELSE "rmfile"]
          /\ UNCHANGED faults
       \/ /\ DeleteFails(d)
          /\ UNCHANGED <<dirs, files>>
    /\ SoloStep(d)
    /\ UNCHANGED <<volumes, volumeNameToID, volumesTotalSize, limit,
                   mut, nextID, creq, track>>
    /\ UNCHANGED <<sreq, boot>>
    /\ UNCHANGED <<targets, nreq>>

\* v.limiter.RemoveLimit(vs.LimitID)
DeleteRemoveLimit(d) ==
    /\ dreq[d].pc = "rmlimit"
    /\ \/ /\ limit' = RemoveLimit(dreq[d].vs.limitID)
          /\ dreq' = [dreq EXCEPT ![d].pc = "rmfile"]
          /\ UNCHANGED faults
       \/ /\ DeleteFails(d)
          /\ UNCHANGED limit
    /\ SoloStep(d)
    /\ UNCHANGED <<volumes, volumeNameToID, volumesTotalSize, files, dirs,
                   mut, nextID, creq, track>>
    /\ UNCHANGED <<sreq, boot>>
    /\ UNCHANGED <<targets, nreq>>

\* The errors os.Remove(statePath) can return.
osRemove(id) ==
    (IF id \in DOMAIN files THEN {"nil"} ELSE {"ENOENT"})
    \cup (IF CanInject THEN {"EIO"} ELSE {})

\* Faulty variant: a missing state file counts as a failure.
RemoveFailed_Strict(err) == err # "nil"

\* err != nil && !os.IsNotExist(err)
RemoveFailed(err) == err # "nil" /\ err # "ENOENT"

\* DeleteVolumeState: os.Remove(statePath)
DeleteRemoveFile(d) ==
    /\ dreq[d].pc = "rmfile"
    /\ \E err \in osRemove(dreq[d].volID) :
          IF RemoveFailed(err)
          THEN /\ dreq' = [dreq EXCEPT ![d].pc = "failed",
                                       ![d].code = "Internal"]
               /\ faults' = IF err = "EIO" THEN faults + 1 ELSE faults
               /\ UNCHANGED files
          ELSE /\ files' = Drop(files, dreq[d].volID)
               /\ dreq' = [dreq EXCEPT ![d].pc = "rmindex"]
               /\ UNCHANGED faults
    /\ SoloStep(d)
    /\ UNCHANGED <<volumes, volumeNameToID, volumesTotalSize, dirs, limit,
                   mut, nextID, creq, track>>
    /\ UNCHANGED <<sreq, boot>>
    /\ UNCHANGED <<targets, nreq>>

\* DeleteVolumeState: the indices, under s.mut; DeleteVolume returns nil.
DeleteIndex(d) ==
    /\ dreq[d].pc = "rmindex"
    /\ DeleteVolumeStateIndex(dreq[d].volID)
    /\ dreq' = [dreq EXCEPT ![d].pc = "done", ![d].code = "OK"]
    /\ IF track.id = dreq[d].volID /\ ~track.deleted
       THEN track' = [track EXCEPT !.deleted = TRUE]
       ELSE TrackStep
    /\ SoloStep(d)
    /\ UNCHANGED <<files, dirs, limit, mut, nextID, creq, faults>>
    /\ UNCHANGED <<sreq, boot>>
    /\ UNCHANGED <<targets, nreq>>

----------------------------------------------------------------------------
(* VolumeManager.CreateVolume called directly, without the checks of       *)
(* driver.CreateVolume.                                                    *)

\* VolumeManager.CreateVolume up to os.Mkdir: the available capacity is
\* fetched and only the error of the fetch is looked at.
ManagerCreateVolume(c, name, capacity) ==
    /\ creq[c].pc \in {"idle", "done"}
    /\ nextID <= MaxVolumeIDs
    /\ LET count == Cardinality(DOMAIN volumes)
           total == GetTotalVolumesSize
           r == [IdleCreate EXCEPT !.name = name, !.capacity = capacity,
                                   !.volumeID = nextID, !.count = count,
                                   !.total = total,
                                   !.availableCapacity =
                                       GetAvailableCapacity(count, total)]
       IN  \/ /\ creq' = [creq EXCEPT ![c] = [r EXCEPT !.pc = "mkdir"]]
              /\ UNCHANGED faults
           \/ /\ CanInject
              /\ Inject
              /\ creq' = [creq EXCEPT ![c] =
                             [r EXCEPT !.pc = "done", !.code = "Internal",
                                       !.err = "statfs"]]
    /\ nextID' = nextID + 1
    /\ SoloBegin(c)
    /\ UNCHANGED <<volumes, volumeNameToID, volumesTotalSize, files, dirs,
                   limit, mut, dreq, track, sreq, boot>>
    /\ UNCHANGED <<targets, nreq>>

----------------------------------------------------------------------------
(* Node RPCs and read-only controller RPCs.                                *)

storeVars == <<volumes, volumeNameToID, volumesTotalSize, files, dirs, limit>>

\* What an RPC of the node caller leaves alone whatever it does.
NodeFrame ==
    /\ solo' = NoProcess
    /\ UNCHANGED <<mut, nextID, creq, dreq, track, sreq, boot>>

\* An RPC begins: the locals are reset; the CreateVolume request inside the
\* create critical section, if any, is noted.
NodeBegins(op, req) ==
    [IdleNode EXCEPT !.op = op, !.req = req,
                     !.during = IF mut = NoProcess THEN EmptyID
                                ELSE creq[mut].volumeID]

NodeIdle(n) == nreq[n].pc \in {"idle", "done"}

NodeReturns(n, r, code) ==
    nreq' = [nreq EXCEPT ![n] = [r EXCEPT !.pc = "done", !.code = code]]

Range(slice) == {slice[i] : i \in 1 .. Len(slice)}

\* Faulty variant: the slice is returned as it is.
Unique_Same(slice) == {slice}

\* slices.Unique: the distinct elements, in the order of a map iteration.
Unique(slice) ==
    {u \in [1 .. Cardinality(Range(slice)) -> Range(slice)] :
        Range(u) = Range(slice)}

\* NodePublishVolume requests: publishable ones with every flag list, and
\* requests with no target path, no capability or an unsupported one.
NodePublishVolumeRequests ==
    {[volumeID |-> id, targetPath |-> "/t/path", caps |-> <<cap>>,
      readonly |-> ro, mountFlags |-> mf] :
        id \in VolumeIDs, ro \in BOOLEAN,
        mf \in {<< >>, <<"ro">>, <<"noatime">>,
                <<"noatime", "bind", "noatime">>},
        cap \in {GoodCapability,
                 VolumeCapability("SINGLE_NODE_WRITER", "mount", "")}}
    \cup {[volumeID |-> 1, targetPath |-> "/t/path", caps |-> caps,
           readonly |-> FALSE, mountFlags |-> << >>] :
             caps \in {<< >>} \cup {<<cap>> : cap \in Capabilities}}
    \cup {[volumeID |-> 1, targetPath |-> "", caps |-> <<GoodCapability>>,
           readonly |-> FALSE, mountFlags |-> << >>]}

\* driver.NodePublishVolume up to the call of VolumeManager.Mount: the code
\* of the error it returns, or "OK".
NodePublishVolumeValidate(req) ==
    IF req.targetPath = "" THEN "InvalidArgument"
    ELSE IF req.caps = << >> THEN "InvalidArgument"
    ELSE IF validateVolumeCapabilities(req.caps) # {} THEN "InvalidArgument"
    ELSE IF req.caps[1].access # "mount" THEN "InvalidArgument"
    ELSE "OK"

\* The option slice NodePublishVolume builds before slices.Unique.
mountOptions(req) ==
    <<"bind">> \o (IF req.readonly THEN <<"ro">> ELSE << >>) \o req.mountFlags

\* driver.NodePublishVolume: validation, the mount options, and
\* VolumeManager.Mount up to os.Mkdir(targetPath), which tolerates an
\* existing path.
NodePublishVolume(n, req) ==
    /\ NodeIdle(n)
    /\ LET r == NodeBegins("NodePublishVolume", req)
           code == NodePublishVolumeValidate(req)
       IN  IF code # "OK"
           THEN /\ NodeReturns(n, r, code)
                /\ UNCHANGED <<targets, faults>>
           ELSE /\ Len(targets[req.targetPath].mounts) < MaxMounts
                /\ \/ \E options \in Unique(mountOptions(req)) :
                         /\ nreq' = [nreq EXCEPT ![n] =
                                [r EXCEPT !.pc = "mount", !.options = options]]
                         /\ targets' = [targets EXCEPT
                                           ![req.targetPath].exists = TRUE]
                         /\ UNCHANGED faults
                   \/ /\ CanInject
                      /\ Inject
                      /\ NodeReturns(n, r, "Internal")
                      /\ UNCHANGED targets
    /\ NodeFrame
    /\ UNCHANGED storeVars

\* VolumeManager.Mount: v.mounter.Mount(path, targetPath, fsType,
\* mountOptions); a bind mount needs the source directory and the target.
NodeMount(n) ==
    /\ nreq[n].pc = "mount"
    /\ LET req == nreq[n].req
       IN  \/ /\ req.volumeID \in DOMAIN dirs
              /\ targets[req.targetPath].exists
              /\ targets' = [targets EXCEPT ![req.targetPath].mounts =
                                Append(@, req.volumeID)]
              /\ NodeReturns(n, nreq[n], "OK")
              /\ UNCHANGED faults
           \/ /\ \/ /\ req.volumeID \notin DOMAIN dirs
                       \/ ~targets[req.targetPath].exists
                    /\ UNCHANGED faults
                 \/ /\ CanInject
                    /\ Inject
              /\ NodeReturns(n, nreq[n], "Internal")
              /\ UNCHANGED targets
    /\ NodeFrame
    /\ UNCHANGED storeVars

\* driver.NodeUnpublishVolume: validation and VolumeManager.Unmount up to
\* v.mounter.Unmount(targetPath), which removes the topmost mount. On a path
\* with nothing mounted the mount.Interface in use returns an error or nil.
NodeUnpublishVolume(n, req) ==
    /\ NodeIdle(n)
    /\ LET r == NodeBegins("NodeUnpublishVolume", req)
       IN  IF req.targetPath = ""
           THEN /\ NodeReturns(n, r, "InvalidArgument")
                /\ UNCHANGED <<targets, faults>>
           ELSE LET mounts == targets[req.targetPath].mounts
                IN  \/ /\ mounts # << >>
                       /\ targets' = [targets EXCEPT ![req.targetPath].mounts =
                                         SubSeq(mounts, 1, Len(mounts) - 1)]
                       /\ nreq' = [nreq EXCEPT ![n] = [r EXCEPT !.pc = "rmdir"]]
                       /\ UNCHANGED faults
                    \/ /\ mounts = << >>
                       /\ \/ nreq' = [nreq EXCEPT ![n] = [r EXCEPT !.pc = "rmdir"]]
                          \/ NodeReturns(n, r, "Internal")
                       /\ UNCHANGED <<targets, faults>>
                    \/ /\ mounts # << >>
                       /\ CanInject
                       /\ Inject
                       /\ NodeReturns(n, r, "Internal")
                       /\ UNCHANGED targets
    /\ NodeFrame
    /\ UNCHANGED storeVars

\* The errors os.Remove(targetPath) can return.
osRemoveTarget(t) ==
    IF ~targets[t].exists THEN {"ENOENT"}
    ELSE IF targets[t].mounts # << >> THEN {"EBUSY"}
    ELSE {"nil"} \cup (IF CanInject THEN {"EIO"} ELSE {})

\* Faulty variant: a missing target path counts as a failure.
TargetRemoveFailed_Strict(err) == err # "nil"

\* VolumeManager.Unmount: err != nil && !os.IsNotExist(err)
TargetRemoveFailed(err) == err # "nil" /\ err # "ENOENT"

\* VolumeManager.Unmount: os.Remove(targetPath)
NodeRmdir(n) ==
    /\ nreq[n].pc = "rmdir"
    /\ LET t == nreq[n].req.targetPath
       IN  \E err \in osRemoveTarget(t) :
              /\ nreq' = [nreq EXCEPT ![n].pc = "done", ![n].err = err,
                                      ![n].code = IF TargetRemoveFailed(err)
                                                  THEN "Internal" ELSE "OK"]
              /\ targets' = IF err = "nil"
                            THEN [targets EXCEPT ![t].exists = FALSE]
                            ELSE targets
              /\ faults' = IF err = "EIO" THEN faults + 1 ELSE faults
    /\ NodeFrame
    /\ UNCHANGED storeVars

\* math.MaxUint32 and limit.MaxLimits, written as two digits of base 2^16,
\* the most significant first.
MaxUint32 == <<65535, 65535>>

MaxLimits ==
    IF MaxUint32[2] > 0 THEN <<MaxUint32[1], MaxUint32[2] - 1>>
    ELSE <<MaxUint32[1] - 1, 65535>>

\* driver.NodeGetInfo
NodeGetInfo(n) ==
    /\ NodeIdle(n)
    /\ nreq' = [nreq EXCEPT ![n] =
           [NodeBegins("NodeGetInfo", Nil) EXCEPT
               !.pc = "done", !.code = "OK",
               !.info = [NodeId |-> NodeName,
                        MaxVolumesPerNode |-> MaxLimits,
                        AccessibleTopology |-> getNodeAccessibleTopology]]]
    /\ NodeFrame
    /\ UNCHANGED storeVars
    /\ UNCHANGED <<targets, faults>>

\* driver.NodeGetVolumeStats: os.Lstat(volumePath), then statfs on it.
NodeGetVolumeStats(n, req) ==
    /\ NodeIdle(n)
    /\ LET r == NodeBegins("NodeGetVolumeStats", req)
       IN  IF req.volumeID = EmptyID \/ req.volumePath = ""
           THEN NodeReturns(n, r, "InvalidArgument") /\ UNCHANGED faults
           ELSE IF ~targets[req.volumePath].exists
           THEN NodeReturns(n, r, "NotFound") /\ UNCHANGED faults
           ELSE \/ NodeReturns(n, r, "OK") /\ UNCHANGED faults
                \/ /\ CanInject
                   /\ Inject
                   /\ NodeReturns(n, r, "Internal")
    /\ NodeFrame
    /\ UNCHANGED storeVars
    /\ UNCHANGED targets

\* Faulty variant: the read waits for driver.mut.
StateRLock_DriverMut == mut = NoProcess

\* s.mut.RLock() can be taken: the critical sections of the store are single
\* steps, so no request holds s.mut between steps.
StateRLock == TRUE

\* driver.GetCapacity: statfs and len(v.state.GetVolumes()).
GetCapacityCount(n) ==
    /\ NodeIdle(n)
    /\ StateRLock
    /\ LET r == NodeBegins("GetCapacity", Nil)
       IN  \/ /\ nreq' = [nreq EXCEPT ![n] =
                     [r EXCEPT !.pc = "total",
                               !.count = Cardinality(DOMAIN volumes)]]
              /\ UNCHANGED faults
           \/ /\ CanInject
              /\ Inject
              /\ NodeReturns(n, r, "Internal")
    /\ NodeFrame
    /\ UNCHANGED storeVars
    /\ UNCHANGED targets

\* driver.GetCapacity: v.state.GetTotalVolumesSize() and the response.
GetCapacityTotal(n) ==
    /\ nreq[n].pc = "total"
    /\ StateRLock
    /\ NodeReturns(n, [nreq[n] EXCEPT !.capacity =
                          GetAvailableCapacity(nreq[n].count,
                                               GetTotalVolumesSize)],
                   "OK")
    /\ NodeFrame
    /\ UNCHANGED storeVars
    /\ UNCHANGED <<targets, faults>>

\* ValidateVolumeCapabilities requests: an id or none, and at most one of
\* the volume context, the capabilities and the parameters differs from
\* those of the plain request.
ValidateVolumeCapabilitiesRequests ==
    LET plain(context, caps, parameters) ==
            (IF context = NoParameters THEN 0 ELSE 1)
            + (IF caps = <<GoodCapability>> THEN 0 ELSE 1)
            + (IF parameters = NoParameters THEN 0 ELSE 1)
    IN  {[volumeID |-> id, volumeContext |-> t[1], caps |-> t[2],
          parameters |-> t[3]] :
            id \in {EmptyID, 1, UnknownID},
            t \in {u \in ParameterMaps \X CapabilityLists \X ParameterMaps :
                      plain(u[1], u[2], u[3]) <= 1}}

\* driver.ValidateVolumeCapabilities: the code it returns.
ValidateVolumeCapabilitiesCode(req) ==
    IF req.volumeID = EmptyID THEN "InvalidArgument"
    ELSE IF GetVolumeStateByID(req.volumeID) = Nil THEN "NotFound"
    ELSE IF DOMAIN req.volumeContext # {} THEN "InvalidArgument"
    ELSE IF req.caps = << >> THEN "InvalidArgument"
    ELSE IF validateVolumeCapabilities(req.caps) # {} THEN "InvalidArgument"
    ELSE IF validateVolumeParameters(req.parameters) # {} THEN "InvalidArgument"
    ELSE "OK"

\* driver.ValidateVolumeCapabilities; a confirmed request is echoed.
ValidateVolumeCapabilities(n, req) ==
    /\ NodeIdle(n)
    /\ StateRLock
    /\ LET r == NodeBegins("ValidateVolumeCapabilities", req)
           code == ValidateVolumeCapabilitiesCode(req)
       IN  NodeReturns(n, [r EXCEPT !.confirmed =
                                        IF code = "OK" THEN req ELSE Nil],
                       code)
    /\ NodeFrame
    /\ UNCHANGED storeVars
    /\ UNCHANGED <<targets, faults>>

----------------------------------------------------------------------------
(* StateManager called directly: NewStateManager, SaveVolumeState and      *)
(* DeleteVolumeState, one step per syscall or s.mut critical section.      *)

\* vs.IsEmpty()
IsEmpty(vs) == vs.name = "" \/ vs.id = EmptyID

\* The state of a StateManager that has loaded nothing yet.
EmptyStore ==
    [volumes |-> EmptyMap, volumeNameToID |-> EmptyMap, volumesTotalSize |-> 0,
     err |-> ""]

\* The callback of filepath.WalkDir, applied to the state files still to
\* visit in lexical order of their names.
RECURSIVE WalkDir(_, _)
WalkDir(toVisit, sm) ==
    IF toVisit = {} THEN sm
    ELSE LET fpath == CHOOSE f \in toVisit : \A g \in toVisit : f <= g
             vs == jsonDecode(files[fpath])
         IN  IF vs = ParseError THEN [sm EXCEPT !.err = "parse"]
             ELSE IF IsEmpty(vs) THEN WalkDir(toVisit \ {fpath}, sm)
             ELSE WalkDir(toVisit \ {fpath},
                     [volumes |-> Put(sm.volumes, vs.id, vs),
                      volumeNameToID |-> Put(sm.volumeNameToID, vs.name, vs.id),
                      volumesTotalSize |-> sm.volumesTotalSize + vs.size,
                      err |-> ""])

\* NewStateManager(workspacePath) on the state files now on disk.
NewStateManager == WalkDir(DOMAIN files, EmptyStore)

\* Records a caller passes to SaveVolumeState: every name under every id,
\* volumes named "v1" being the small ones.
StoreRecords ==
    {VolumeState(name, id, id, IF name = "v1" THEN 1000 ELSE 8192) :
        name \in Names, id \in VolumeIDs}

StoreQuiescent(p) == sreq[p].pc \in {"idle", "done"}

StoreSoloBegin(p) ==
    solo' = IF \A q \in StoreCallers \ {p} : StoreQuiescent(q)
            THEN p ELSE NoProcess

\* A call begins: locals are reset, the record and total size are noted.
StoreBegins(p, op, v, id) ==
    [IdleStore EXCEPT !.op = op, !.v = v, !.id = id,
                      !.calls = sreq[p].calls + 1,
                      !.vs0 = GetVolumeStateByID(id),
                      !.total0 = GetTotalVolumesSize]

\* SaveVolumeState: os.Create(statePath) creates or truncates the file.
SaveVolumeState(p, v) ==
    /\ StoreQuiescent(p)
    /\ sreq[p].calls < MaxCalls
    /\ LET r == StoreBegins(p, "save", v, v.id)
       IN  \/ /\ files' = Put(files, v.id, Truncated)
              /\ sreq' = [sreq EXCEPT ![p] =
                             [r EXCEPT !.pc = "encode", !.linked = TRUE]]
              /\ UNCHANGED faults
           \/ /\ CanInject
              /\ Inject
              /\ sreq' = [sreq EXCEPT ![p] =
                             [r EXCEPT !.pc = "done", !.err = "create"]]
              /\ UNCHANGED files
    /\ StoreSoloBegin(p)
    /\ UNCHANGED <<volumes, volumeNameToID, volumesTotalSize, dirs, limit,
                   mut, nextID, creq, dreq, track, boot>>
    /\ UNCHANGED <<targets, nreq>>

\* SaveVolumeState: Encode writes through the descriptor; when Encode fails
\* the deferred f.Close() runs and the error is returned.
StoreEncode(p) ==
    /\ sreq[p].pc = "encode"
    /\ \/ /\ files' = IF sreq[p].linked
                      THEN Put(files, sreq[p].id, jsonEncode(sreq[p].v))
                      ELSE files
          /\ sreq' = [sreq EXCEPT ![p].pc = "index"]
          /\ UNCHANGED faults
       \/ /\ CanInject
          /\ Inject
          /\ sreq' = [sreq EXCEPT ![p].pc = "done", ![p].err = "encode",
                                  ![p].linked = FALSE]
          /\ UNCHANGED files
    /\ SoloStep(p)
    /\ UNCHANGED <<volumes, volumeNameToID, volumesTotalSize, dirs, limit,
                   mut, nextID, creq, dreq, track, boot>>
    /\ UNCHANGED <<targets, nreq>>

\* SaveVolumeState: the indices and the total size, under s.mut.
StoreIndex(p) ==
    /\ sreq[p].pc = "index"
    /\ SaveVolumeStateIndex(sreq[p].v)
    /\ sreq' = [sreq EXCEPT ![p].pc = "close"]
    /\ SoloStep(p)
    /\ UNCHANGED <<files, dirs, limit, mut, nextID, creq, dreq, faults, track,
                   boot>>
    /\ UNCHANGED <<targets, nreq>>

\* SaveVolumeState: the deferred f.Close(); its error is the call's error.
StoreClose(p) ==
    /\ sreq[p].pc = "close"
    /\ \/ /\ sreq' = [sreq EXCEPT ![p].pc = "done", ![p].linked = FALSE]
          /\ UNCHANGED faults
       \/ /\ CanInject
          /\ Inject
          /\ sreq' = [sreq EXCEPT ![p].pc = "done", ![p].err = "close",
                                  ![p].linked = FALSE]
    /\ SoloStep(p)
    /\ UNCHANGED <<volumes, volumeNameToID, volumesTotalSize, files, dirs,
                   limit, mut, nextID, creq, dreq, track, boot>>
    /\ UNCHANGED <<targets, nreq>>

\* DeleteVolumeState: os.Remove(statePath) unlinks the file; descriptors
\* that were open on it no longer name a file of the volumes root.
DeleteVolumeState(p, id) ==
    /\ StoreQuiescent(p)
    /\ sreq[p].calls < MaxCalls
    /\ LET r == StoreBegins(p, "delete", Nil, id)
       IN  \E err \in osRemove(id) :
              IF RemoveFailed(err)
              THEN /\ sreq' = [sreq EXCEPT ![p] =
                                  [r EXCEPT !.pc = "done", !.err = err]]
                   /\ faults' = IF err = "EIO" THEN faults + 1 ELSE faults
                   /\ UNCHANGED files
              ELSE /\ sreq' = [q \in StoreCallers |->
                                  IF q = p THEN [r EXCEPT !.pc = "drop"]
                                  ELSE IF sreq[q].id = id
                                       THEN [sreq[q] EXCEPT !.linked = FALSE]
                                       ELSE sreq[q]]
                   /\ files' = Drop(files, id)
                   /\ UNCHANGED faults
    /\ StoreSoloBegin(p)
    /\ UNCHANGED <<volumes, volumeNameToID, volumesTotalSize, dirs, limit,
                   mut, nextID, creq, dreq, track, boot>>
    /\ UNCHANGED <<targets, nreq>>

\* DeleteVolumeState: the indices and the total size, under s.mut.
StoreDrop(p) ==
    /\ sreq[p].pc = "drop"
    /\ DeleteVolumeStateIndex(sreq[p].id)
    /\ sreq' = [sreq EXCEPT ![p].pc = "done"]
    /\ SoloStep(p)
    /\ UNCHANGED <<files, dirs, limit, mut, nextID, creq, dreq, faults, track,
                   boot>>
    /\ UNCHANGED <<targets, nreq>>

\* The process is restarted between calls: the StateManager is rebuilt from
\* the state files; a file that does not parse makes NewStateManager fail.
StoreReload ==
    /\ \A p \in StoreCallers : StoreQuiescent(p)
    /\ NewStateManager.err = ""
    /\ volumes' = NewStateManager.volumes
    /\ volumeNameToID' = NewStateManager.volumeNameToID
    /\ volumesTotalSize' = NewStateManager.volumesTotalSize
    /\ solo' = NoProcess
    /\ <<volumes', volumeNameToID', volumesTotalSize'>>
          # <<volumes, volumeNameToID, volumesTotalSize>>
    /\ UNCHANGED <<files, dirs, limit, mut, nextID, creq, dreq, faults, track,
                   sreq, boot>>
    /\ UNCHANGED <<targets, nreq>>

----------------------------------------------------------------------------
(* Startup: LocalDriverOptions.run with an XFS volumes root.               *)

\* Project ids recorded in state files.
LimitIDs == ProjectIDs \ {0}

\* State files a starting process can find: each is named by the id it
\* records, or is empty.
StateFilesOnDisk ==
    LET docs == {Truncated} \cup
                {jsonEncode(VolumeState(name, id, limitID, 1000)) :
                    name \in Names, id \in VolumeIDs, limitID \in LimitIDs}
    IN  {f \in UNION {[S -> docs] : S \in SUBSET VolumeIDs} :
            \A id \in DOMAIN f :
               f[id] = Truncated \/ jsonDecode(f[id]).id = id}

\* Volume directories a starting process can find, with any project id.
DirectoriesOnDisk == UNION {[S -> ProjectIDs] : S \in SUBSET VolumeIDs}

\* Mount options the volumes root can have.
MountOptionSets == SUBSET ({"rw"} \cup QuotaOptions)

\* The process starts on a volumes root left by earlier runs and by other
\* processes.
StartInit ==
    /\ volumes = EmptyMap
    /\ volumeNameToID = EmptyMap
    /\ volumesTotalSize = 0
    /\ files \in StateFilesOnDisk
    /\ dirs \in DirectoriesOnDisk
    /\ limit = [p \in ProjectIDs |-> 0]
    /\ mut = NoProcess
    /\ nextID = 1
    /\ creq = [c \in Creators |-> IdleCreate]
    /\ dreq = [d \in Deleters |-> IdleDelete]
    /\ faults = 0
    /\ solo = NoProcess
    /\ track = NoTrack
    /\ sreq = [p \in StoreCallers |-> IdleStore]
    /\ targets = [t \in TargetPaths |-> NoTarget]
    /\ nreq = [n \in NodeCallers |-> IdleNode]
    /\ \E opts \in MountOptionSets, volumeFsType \in {"xfs", "ext2/ext3"} :
          boot = [Serving EXCEPT !.pc = "start", !.fs = volumeFsType,
                                 !.opts = opts, !.limiter = "noop"]

\* run returns an error: the process exits without serving.
RunFails(err) == boot' = [boot EXCEPT !.pc = "failed", !.err = err]

\* run: volume.NewStateManager(o.VolumesDir)
RunNewStateManager ==
    /\ boot.pc = "start"
    /\ IF NewStateManager.err # ""
       THEN /\ RunFails("state")
            /\ UNCHANGED <<volumes, volumeNameToID, volumesTotalSize>>
       ELSE /\ volumes' = NewStateManager.volumes
            /\ volumeNameToID' = NewStateManager.volumeNameToID
            /\ volumesTotalSize' = NewStateManager.volumesTotalSize
            /\ boot' = [boot EXCEPT !.pc = "fs"]
    /\ UNCHANGED <<files, dirs, limit, mut, nextID, creq, dreq, faults, solo,
                   track, sreq>>
    /\ UNCHANGED <<targets, nreq>>

\* run: fs.GetFilesystem(o.VolumesDir) and the switch on its result, which
\* has a case for xfs only.
RunGetFilesystem ==
    /\ boot.pc = "fs"
    /\ \/ /\ IF boot.fs = "xfs"
             THEN boot' = [boot EXCEPT !.pc = "mount"]
             ELSE RunFails("unsupported")
          /\ UNCHANGED faults
       \/ /\ CanInject
          /\ Inject
          /\ RunFails("stat")
    /\ UNCHANGED <<volumes, volumeNameToID, volumesTotalSize, files, dirs,
                   limit, mut, nextID, creq, dreq, solo, track, sreq>>
    /\ UNCHANGED <<targets, nreq>>

\* Faulty variant: the mount options are not looked at.
HasQuotaOption_Any(opts) == TRUE

\* slices.Contains(entry.Opts, "pquota") || slices.Contains(entry.Opts, "prjquota")
HasQuotaOption(opts) == "pquota" \in opts \/ "prjquota" \in opts

\* NewXFSLimiter: the mount entry and its options; then the volumes to restore.
NewXFSLimiter ==
    /\ boot.pc = "mount"
    /\ IF HasQuotaOption(boot.opts)
       THEN boot' = [boot EXCEPT !.pc = "restore", !.limiter = "xfs",
                                 !.pending = DOMAIN volumes]
       ELSE RunFails("noquota")
    /\ UNCHANGED <<volumes, volumeNameToID, volumesTotalSize, files, dirs,
                   limit, mut, nextID, creq, dreq, faults, solo, track, sreq>>
    /\ UNCHANGED <<targets, nreq>>

\* NewXFSLimiter: restoreVolumeQuota(v) for the next volume of the range loop.
restoreVolumeQuota(id) ==
    /\ boot.pc = "restore"
    /\ id \in boot.pending
    /\ IF id \notin DOMAIN dirs
       THEN RunFails("open") /\ UNCHANGED <<limit, faults>>
       ELSE IF dirs[id] # volumes[id].limitID
       THEN RunFails("tampered") /\ UNCHANGED <<limit, faults>>
       ELSE \/ /\ limit' = SetLimit(volumes[id].limitID, volumes[id].size)
               /\ boot' = [boot EXCEPT !.pending = @ \ {id}]
               /\ UNCHANGED faults
            \/ /\ CanInject
               /\ Inject
               /\ RunFails("setlimit")
               /\ UNCHANGED limit
    /\ UNCHANGED <<volumes, volumeNameToID, volumesTotalSize, files, dirs,
                   mut, nextID, creq, dreq, solo, track, sreq>>
    /\ UNCHANGED <<targets, nreq>>

\* run: NewVolumeManager, the listener and server.Serve.
RunServe ==
    /\ boot.pc = "restore"
    /\ boot.pending = {}
    /\ boot' = [boot EXCEPT !.pc = "serving"]
    /\ UNCHANGED <<volumes, volumeNameToID, volumesTotalSize, files, dirs,
                   limit, mut, nextID, creq, dreq, faults, solo, track, sreq>>
    /\ UNCHANGED <<targets, nreq>>

\* The gRPC server dispatches an RPC to the driver.
ServeRPC ==
    /\ boot.pc = "serving"
    /\ ~boot.handled
    /\ boot' = [boot EXCEPT !.handled = TRUE]
    /\ UNCHANGED <<volumes, volumeNameToID, volumesTotalSize, files, dirs,
                   limit, mut, nextID, creq, dreq, faults, solo, track, sreq>>
    /\ UNCHANGED <<targets, nreq>>

----------------------------------------------------------------------------
(* Specifications.                                                         *)

CreateStep(c) ==
    \/ \E name \in Names, capacity \in Sizes : CreateVolume(c, name, capacity)
    \/ CreateLock(c)
    \/ CreateCount(c)
    \/ CreateTotal(c)
    \/ CreateMkdir(c)
    \/ CreateNewLimit(c)
    \/ CreateSaveFile(c)
    \/ CreateSaveIndex(c)
    \/ CreateSetLimit(c)

DeleteStep(d) ==
    \/ \E volID \in VolumeIDs \cup {UnknownID} : DeleteVolume(d, volID)
    \/ DeleteRetry(d)
    \/ DeleteRemoveAll(d)
    \/ DeleteRemoveLimit(d)
    \/ DeleteRemoveFile(d)
    \/ DeleteIndex(d)

Next ==
    \/ \E c \in Creators : CreateStep(c)
    \/ \E d \in Deleters : DeleteStep(d)

Spec == Init /\ [][Next]_vars

\* A delete that has begun runs on, and a failed delete is called again.
DeleteProgress(d) ==
    \/ DeleteRetry(d)
    \/ DeleteRemoveAll(d)
    \/ DeleteRemoveLimit(d)
    \/ DeleteRemoveFile(d)
    \/ DeleteIndex(d)

\* One creator and the deleters, scheduled fairly.
FairNext ==
    \/ CreateStep("c1")
    \/ \E d \in Deleters : DeleteStep(d)

FairSpec ==
    Init /\ [][FairNext]_vars /\ \A d \in Deleters : WF_vars(DeleteProgress(d))

StoreStep(p) ==
    \/ \E v \in StoreRecords : SaveVolumeState(p, v)
    \/ StoreEncode(p)
    \/ StoreIndex(p)
    \/ StoreClose(p)
    \/ \E id \in VolumeIDs : DeleteVolumeState(p, id)
    \/ StoreDrop(p)

StoreNext ==
    \/ \E p \in StoreCallers : StoreStep(p)
    \/ StoreReload

\* The StateManager alone, called as its unit tests call it.
StoreSpec == Init /\ [][StoreNext]_vars

StartNext ==
    \/ RunNewStateManager
    \/ RunGetFilesystem
    \/ NewXFSLimiter
    \/ \E id \in VolumeIDs : restoreVolumeQuota(id)
    \/ RunServe
    \/ ServeRPC

\* One start of the process, up to the first RPC.
StartSpec == StartInit /\ [][StartNext]_vars

ManagerStep(c) ==
    \/ \E name \in Names, capacity \in Sizes :
          ManagerCreateVolume(c, name, capacity)
    \/ CreateMkdir(c)
    \/ CreateNewLimit(c)
    \/ CreateSaveFile(c)
    \/ CreateSaveIndex(c)
    \/ CreateSetLimit(c)

ManagerNext ==
    \/ ManagerStep("c1")
    \/ \E d \in Deleters : DeleteStep(d)

\* The VolumeManager alone, called as its unit tests call it.
ManagerSpec == Init /\ [][ManagerNext]_vars

\* The serving process is killed: the StateManager, d.mut and the requests in
\* flight are gone, the volumes root and the quota table stay as they are,
\* and the process is started again on the same XFS root.
Crash ==
    /\ boot.pc = "serving"
    /\ boot' = [Serving EXCEPT !.pc = "start", !.limiter = "noop",
                               !.err = "crash"]
    /\ volumes' = EmptyMap
    /\ volumeNameToID' = EmptyMap
    /\ volumesTotalSize' = 0
    /\ mut' = NoProcess
    /\ creq' = [c \in Creators |-> IdleCreate]
    /\ dreq' = [d \in Deleters |-> IdleDelete]
    /\ solo' = NoProcess
    /\ track' = NoTrack
    /\ UNCHANGED <<files, dirs, limit, nextID, faults, sreq, targets, nreq>>

\* Requests are served until the process is killed and started again.
CrashNext ==
    \/ boot.pc = "serving" /\ CreateStep("c1")
    \/ boot.pc = "serving" /\ \E d \in Deleters : DeleteStep(d)
    \/ Crash
    \/ StartNext

CrashSpec == Init /\ [][CrashNext]_vars

\* driver.DeleteVolume called with the name of a state file as the volume id:
\* the request only requires the id to be non-empty.
DeleteVolumeByFileName(d) ==
    /\ dreq[d].pc \in {"idle", "done"}
    /\ \E id \in VolumeIDs : DeleteLookup(d, 0 - id, 1)

EdgeNext ==
    \/ CreateStep("c1")
    \/ \E name \in Names, capacity \in {0, BasicBlockSize - 1} :
          CreateVolume("c1", name, capacity)
    \/ \E d \in Deleters : DeleteStep(d)
    \/ \E d \in Deleters : DeleteVolumeByFileName(d)

\* The driver with the requests at the edges of what it accepts: delete
\* requests for ids it never issued, and create requests with no capacity
\* range or with less than one basic block.
EdgeSpec == Init /\ [][EdgeNext]_vars

\* The record, state file, directory and quota of a volume that an earlier
\* CreateVolume(name, 1000) left, the volume "v1" under id 1 and project 1.
Created(ids) ==
    LET name(id) == IF id = 1 THEN "v1" ELSE "v2"
    IN  [volumes |-> [id \in ids |-> VolumeState(name(id), id, id, 1000)],
         volumeNameToID |-> [nm \in {name(id) : id \in ids} |->
                                CHOOSE id \in ids : name(id) = nm],
         volumesTotalSize |-> 1000 * Cardinality(ids),
         files |-> [id \in ids |->
                       jsonEncode(VolumeState(name(id), id, id, 1000))],
         dirs |-> [id \in ids |-> id],
         limit |-> [p \in ProjectIDs |->
                       IF p \in ids THEN bytesToBlocks(1000) ELSE 0]]

\* The driver serves with the volumes earlier requests created.
NodeInit ==
    /\ \E ids \in SUBSET VolumeIDs :
          /\ volumes = Created(ids).volumes
          /\ volumeNameToID = Created(ids).volumeNameToID
          /\ volumesTotalSize = Created(ids).volumesTotalSize
          /\ files = Created(ids).files
          /\ dirs = Created(ids).dirs
          /\ limit = Created(ids).limit
          /\ nextID = MaxVolumeIDs + 1
    /\ mut = NoProcess
    /\ creq = [c \in Creators |-> IdleCreate]
    /\ dreq = [d \in Deleters |-> IdleDelete]
    /\ faults = 0
    /\ solo = NoProcess
    /\ track = NoTrack
    /\ sreq = [p \in StoreCallers |-> IdleStore]
    /\ boot = Serving
    /\ targets = [t \in TargetPaths |-> NoTarget]
    /\ nreq = [n \in NodeCallers |-> IdleNode]

\* The steps of the node RPCs, with requests of every shape.
NodeNext ==
    \E n \in NodeCallers :
       \/ \E req \in NodePublishVolumeRequests : NodePublishVolume(n, req)
       \/ NodeMount(n)
       \/ \E t \in TargetPaths \cup {""} :
             NodeUnpublishVolume(n, [targetPath |-> t])
       \/ NodeRmdir(n)
       \/ NodeGetInfo(n)
       \/ \E id \in {EmptyID, 1}, path \in TargetPaths \cup {""} :
             NodeGetVolumeStats(n, [volumeID |-> id, volumePath |-> path])

\* The node service alone.
NodeSpec == NodeInit /\ [][NodeNext]_vars

\* The ValidateVolumeCapabilities request for the volume the creator may have
\* created.
PlainValidate ==
    [volumeID |-> 1, volumeContext |-> NoParameters,
     caps |-> <<GoodCapability>>, parameters |-> NoParameters]

\* A creator that asks for one volume again and again, the deleters, and one
\* request of each kind of the RPCs that neither create nor delete.
FrameNext ==
    \/ CreateVolume("c1", "v1", 1000)
    \/ CreateLock("c1")
    \/ CreateCount("c1")
    \/ CreateTotal("c1")
    \/ CreateMkdir("c1")
    \/ CreateNewLimit("c1")
    \/ CreateSaveFile("c1")
    \/ CreateSaveIndex("c1")
    \/ CreateSetLimit("c1")
    \/ \E d \in Deleters : DeleteStep(d)
    \/ \E n \in NodeCallers :
          \/ NodePublishVolume(
                n, [volumeID |-> 1, targetPath |-> "/t/path",
                    caps |-> <<GoodCapability>>, readonly |-> FALSE,
                    mountFlags |-> << >>])
          \/ NodeMount(n)
          \/ NodeUnpublishVolume(n, [targetPath |-> "/t/path"])
          \/ NodeRmdir(n)
          \/ NodeGetVolumeStats(n, [volumeID |-> 1, volumePath |-> "/t/path"])
          \/ GetCapacityCount(n)
          \/ GetCapacityTotal(n)
          \/ ValidateVolumeCapabilities(n, PlainValidate)

FrameSpec == Init /\ [][FrameNext]_vars

\* The first call of a caller, with a request of any shape.
OneCreateVolume(c) ==
    /\ creq[c].pc = "idle"
    /\ \E req \in CreateVolumeRequests : CreateVolumeRequest(c, req)

OneValidateVolumeCapabilities(n) ==
    /\ nreq[n].pc = "idle"
    /\ \E req \in ValidateVolumeCapabilitiesRequests :
          ValidateVolumeCapabilities(n, req)

OneNodePublishVolume(n) ==
    /\ nreq[n].pc = "idle"
    /\ \E req \in NodePublishVolumeRequests : NodePublishVolume(n, req)

ApiNext ==
    \/ OneCreateVolume("c1")
    \/ CreateLock("c1")
    \/ CreateCount("c1")
    \/ CreateTotal("c1")
    \/ CreateMkdir("c1")
    \/ CreateNewLimit("c1")
    \/ CreateSaveFile("c1")
    \/ CreateSaveIndex("c1")
    \/ CreateSetLimit("c1")
    \/ \E n \in NodeCallers :
          \/ OneValidateVolumeCapabilities(n)
          \/ OneNodePublishVolume(n)
          \/ NodeMount(n)

\* The handlers that validate their request, each called once by its caller
\* with a request of any shape.
ApiSpec == Init /\ [][ApiNext]_vars

\* Two creators of one volume that contend for d.mut, a deleter of the first
\* volume, and a caller of GetCapacity, NodePublishVolume or
\* NodeUnpublishVolume, each with one request.
LiveNext ==
    \/ \E c \in Creators :
          \/ creq[c].pc = "idle"
                /\ CreateVolume(c, "v1", 1000)
          \/ CreateLock(c)
          \/ CreateCount(c)
          \/ CreateTotal(c)
          \/ CreateMkdir(c)
          \/ CreateNewLimit(c)
          \/ CreateSaveFile(c)
          \/ CreateSaveIndex(c)
          \/ CreateSetLimit(c)
    \/ \E d \in Deleters :
          \/ dreq[d].pc = "idle"
                /\ DeleteVolume(d, 1)
          \/ DeleteRemoveAll(d)
          \/ DeleteRemoveLimit(d)
          \/ DeleteRemoveFile(d)
          \/ DeleteIndex(d)
    \/ \E n \in NodeCallers :
          \/ nreq[n].pc = "idle"
                /\ \/ NodePublishVolume(
                         n, [volumeID |-> 1, targetPath |-> "/t/path",
                             caps |-> <<GoodCapability>>, readonly |-> FALSE,
                             mountFlags |-> << >>])
                   \/ NodeUnpublishVolume(n, [targetPath |-> "/t/path"])
                   \/ GetCapacityCount(n)
          \/ NodeMount(n)
          \/ NodeRmdir(n)
          \/ GetCapacityTotal(n)

\* Every syscall returns, so a request that has begun takes its next step;
\* sync.Mutex hands d.mut to a goroutine that keeps waiting for it
\* (starvation mode), so a creator that can take the lock again and again
\* takes it.
LiveSpec ==
    /\ Init
    /\ [][LiveNext]_vars
    /\ \A c \in Creators :
          /\ SF_vars(CreateLock(c))
          /\ WF_vars(\/ CreateCount(c) \/ CreateTotal(c) \/ CreateMkdir(c)
                     \/ CreateNewLimit(c) \/ CreateSaveFile(c)
                     \/ CreateSaveIndex(c) \/ CreateSetLimit(c))
    /\ \A d \in Deleters :
          WF_vars(\/ DeleteRemoveAll(d) \/ DeleteRemoveLimit(d)
                  \/ DeleteRemoveFile(d) \/ DeleteIndex(d))
    /\ \A n \in NodeCallers :
          WF_vars(NodeMount(n) \/ NodeRmdir(n) \/ GetCapacityTotal(n))

----------------------------------------------------------------------------
(* Properties.                                                             *)

RawCapacity == Bsize * Blocks

Count == Cardinality(DOMAIN volumes)

\* A CreateVolume request that did not take the existing-name shortcut.
CreatedNew(c) == creq[c].volumeID # EmptyID

\* A request for the id is executing.
InFlight(id) ==
    \/ \E c \in Creators :
          creq[c].volumeID = id /\ creq[c].pc \notin {"idle", "done"}
    \/ \E d \in Deleters :
          dreq[d].volID = id /\ dreq[d].pc \notin {"idle", "done", "failed"}

\* Nothing of the volume is left in the volumes root or in the state store.
Clean(id) ==
    /\ id \notin DOMAIN dirs
    /\ id \notin DOMAIN files
    /\ id \notin DOMAIN volumes
    /\ \A n \in DOMAIN volumeNameToID : volumeNameToID[n] # id

\* C1: for any interleaving of CreateVolume requests with names not yet in
\* the store and DeleteVolume requests, with no injected syscall failure,
\* every CreateVolume returns success or OUT_OF_RANGE, and in every reachable
\* state the sizes of all records sum to at most the raw capacity.
C1_ConcurrentCreatesFit ==
    /\ faults = 0 =>
          \A c \in Creators :
             (creq[c].pc = "done" /\ CreatedNew(c)) =>
                creq[c].code \in {"OK", "OutOfRange"}
    /\ SumSizes(volumes) <= RawCapacity

C1_Witness ==
    \E a, b \in Creators, d \in Deleters :
       /\ faults = 0
       /\ creq[a].pc = "lock"
       /\ mut = b
       /\ creq[b].pc = "setlimit"
       /\ creq[a].name # creq[b].name
       /\ creq[a].capacity + creq[b].capacity > RawCapacity
       /\ dreq[d].pc = "rmdir"

\* C2 as stated: in every reachable state sum(size_bytes) plus
\* (number of records + 1) x 4096 does not exceed the raw capacity.
C2_ReserveForNextVolume ==
    SumSizes(volumes) + (Count + 1) * 4096 <= RawCapacity

\* C2 as amended: in every reachable state sum(size_bytes) plus
\* (number of records) x 4096 does not exceed the raw capacity; the reserve
\* for one more metadata file is only what GetAvailableCapacity subtracts.
C2_MetadataOfEveryVolumeFits ==
    SumSizes(volumes) + Count * 4096 <= RawCapacity

C2_Witness ==
    /\ Count > 0
    /\ SumSizes(volumes) + Count * 4096 = RawCapacity

\* C3: in every reachable state, also when CreateVolume requests with the
\* same name run concurrently, at most one record has a given name and
\* GetVolumeStateByName(name) returns exactly that record. No syscall has to
\* fail for the property to break.
C3_NameUnique ==
    faults = 0 =>
       \A i, j \in DOMAIN volumes :
          /\ volumes[i].name = volumes[j].name => i = j
          /\ GetVolumeStateByName(volumes[i].name) = volumes[i]

\* C4: when a record with name n and size s exists, a CreateVolume(n, s)
\* that starts while no other request is executing returns that record's id,
\* a CreateVolume(n, s') with s' # s fails with ALREADY_EXISTS, and in both
\* cases the volumes root, the state store and the quotas are unchanged
\* (no syscall has failed before the call).
C4_IdempotentCreate ==
    [][\A c \in Creators :
          (creq[c].pc \in {"idle", "done"} /\ creq'[c] # creq[c]
           /\ solo' = c /\ faults = 0) =>
             \A id \in DOMAIN volumes :
                volumes[id].name = creq'[c].name =>
                   /\ creq'[c].pc = "done"
                   /\ IF volumes[id].size = creq'[c].capacity
                      THEN creq'[c].code = "OK" /\ creq'[c].ret = id
                      ELSE creq'[c].code = "AlreadyExists"
                   /\ UNCHANGED <<volumes, volumeNameToID, volumesTotalSize,
                                  files, dirs, limit>>]_vars

\* C5: when state.save or limiter.set_limit fails during CreateVolume, the
\* volumes root and the state store are as before the call: no directory, no
\* state file, no record for the id or the name, total size unchanged.
C5_Compensation ==
    \A c \in Creators :
       (/\ creq[c].pc = "done"
        /\ solo = c
        /\ creq[c].err \in {"create", "encode", "close", "setlimit"}) =>
          /\ Clean(creq[c].volumeID)
          /\ GetVolumeStateByName(creq[c].name) = Nil
          /\ volumesTotalSize = creq[c].total

\* C6: whenever no request for a volume is in flight, its state file has a
\* matching directory whose project id is the recorded quota id, and a quota
\* entry for that id.
C6_StateFileHasDirectory ==
    \A id \in DOMAIN files :
       ~InFlight(id) =>
          /\ id \in DOMAIN dirs
          /\ jsonDecode(files[id]) # ParseError
          /\ dirs[id] = jsonDecode(files[id]).limitID
          /\ GetQuota(jsonDecode(files[id]).limitID)

NothingToDelete(d) ==
    /\ dreq[d].vs = Nil
    /\ dreq[d].volID \notin DOMAIN dirs
    /\ dreq[d].volID \notin DOMAIN files

C9_DeleteConverges ==
    \A d \in Deleters :
       /\ (dreq[d].pc = "failed")
             ~> (dreq[d].pc = "done" /\ dreq[d].code = "OK"
                 /\ dreq[d].attempt > 1 /\ Clean(dreq[d].volID))
       /\ \A p \in ProjectIDs :
             (dreq[d].pc = "failed" /\ dreq[d].vs # Nil
              /\ dreq[d].vs.limitID = p) ~> (limit[p] = 0)

C9_Witness ==
    \E d \in Deleters :
       /\ dreq[d].pc = "done" /\ dreq[d].code = "OK"
       /\ dreq[d].attempt > 1
       /\ dreq[d].vs # Nil
       /\ Clean(dreq[d].volID)

\* A direct StateManager call of the operation has returned, having run with
\* no other call interleaved.
StoreReturned(p, op) ==
    sreq[p].pc = "done" /\ sreq[p].op = op /\ solo = p

\* Another state file holds a record with the same name.
NameOnDiskTwice(v) ==
    \E f \in DOMAIN files :
       /\ f # v.id
       /\ jsonDecode(files[f]) # ParseError
       /\ jsonDecode(files[f]).name = v.name

C12_TotalIsSum ==
    GetTotalVolumesSize = SumSizes(volumes)

\* C13: after DeleteVolumeState(id) has returned success the id has no
\* record, the name of the record it had does not resolve, the state file
\* is gone and the total size is smaller by exactly that record's size; a
\* DeleteVolumeState fails only on an injected I/O error, never because the
\* file is absent.
C13_DeleteVolumeState ==
    \A p \in StoreCallers :
       /\ (StoreReturned(p, "delete") /\ sreq[p].err = "") =>
             /\ GetVolumeStateByID(sreq[p].id) = Nil
             /\ sreq[p].vs0 # Nil =>
                   GetVolumeStateByName(sreq[p].vs0.name) = Nil
             /\ sreq[p].id \notin DOMAIN files
             /\ GetTotalVolumesSize =
                   sreq[p].total0
                   - (IF sreq[p].vs0 # Nil THEN sreq[p].vs0.size ELSE 0)
       /\ (sreq[p].pc = "done" /\ sreq[p].op = "delete") =>
             sreq[p].err \in {"", "EIO"}

C13_Witness ==
    \E p \in StoreCallers :
       /\ StoreReturned(p, "delete") /\ sreq[p].err = ""
       /\ sreq[p].vs0 # Nil
       /\ sreq[p].vs0.size = 8192
       /\ GetTotalVolumesSize = 1000

\* C10: after a CreateVolume of size S that created a volume, GetCapacity
\* reports S + 4096 less than GetAvailableCapacity returned just before the
\* create; after the matching DeleteVolume it reports that value again
\* (no other request changes the store in between).
C10_CapacityConservation ==
    /\ \A c \in Creators :
          (creq[c].pc = "done" /\ creq[c].code = "OK" /\ CreatedNew(c)
           /\ solo = c) =>
             GetCapacity = creq[c].availableCapacity - (creq[c].capacity + 4096)
    /\ \A d \in Deleters :
          (dreq[d].pc = "done" /\ track.deleted /\ track.id = dreq[d].volID) =>
             GetCapacity = track.before

C10_Witness ==
    \E d \in Deleters :
       /\ dreq[d].pc = "done" /\ track.deleted /\ track.id = dreq[d].volID
       /\ dreq[d].vs # Nil /\ dreq[d].vs.size > 0

\* C14: in every state reached by interleaved CreateVolume and DeleteVolume
\* requests, with no syscall failing, no two records of the state store have
\* the same quota id, and the project id NewLimit has just bound to a new
\* directory is the quota id of no record.
C14_QuotaIDNotReused ==
    faults = 0 =>
       /\ \A i, j \in DOMAIN volumes :
             volumes[i].limitID = volumes[j].limitID => i = j
       /\ \A c \in Creators :
             creq[c].pc = "save" =>
                \A id \in DOMAIN volumes :
                   volumes[id].limitID # creq[c].limitID

\* C15: the process serves, and an RPC is handled, only if the volumes root
\* is mounted with pquota or prjquota and every loaded record has a
\* directory whose project id is the recorded quota id.
C15_RefusesToServe ==
    /\ (boot.pc = "serving" \/ boot.handled) =>
          /\ boot.opts \cap QuotaOptions # {}
          /\ \A id \in DOMAIN volumes :
                id \in DOMAIN dirs /\ dirs[id] = volumes[id].limitID
          /\ \A id \in DOMAIN files :
                /\ jsonDecode(files[id]) # ParseError
                /\ volumes[id] = jsonDecode(files[id])
    /\ boot.handled => boot.pc = "serving"

C15_Witness ==
    /\ boot.pc = "failed"
    /\ boot.err = "tampered"
    /\ boot.opts = {"rw", "pquota"}
    /\ boot.pending # DOMAIN volumes
    /\ ~boot.handled

\* C16: when a SaveVolumeState(v) and a DeleteVolumeState(v.id) have run
\* concurrently and returned, with no syscall failing, the store is in the
\* state one of the two sequential orders leaves: the state file of an id
\* exists exactly when the id has a record, and then holds that record.
C16_Linearizable ==
    (faults = 0 /\ \A p \in StoreCallers : StoreQuiescent(p)) =>
       \A id \in VolumeIDs :
          /\ id \in DOMAIN files <=> id \in DOMAIN volumes
          /\ id \in DOMAIN files => jsonDecode(files[id]) = volumes[id]

\* The descriptor SaveVolumeState opened has not been closed yet.
FileOpen(p) ==
    sreq[p].op = "save" /\ sreq[p].pc \in {"encode", "index", "close"}

\* The call has updated or dropped the indices.
IndicesUpdated(p) ==
    \/ sreq[p].pc = "close"
    \/ sreq[p].pc = "done" /\ sreq[p].err \in {"", "close"}

\* C17: a SaveVolumeState has closed its state file before it updates the
\* indices and the total size, and a record is visible through the indices
\* only when its file is completely written; a DeleteVolumeState has removed
\* the state file before it drops the record.
C17_FileBeforeIndices ==
    \A p \in StoreCallers :
       /\ (sreq[p].op = "save" /\ IndicesUpdated(p)) => ~FileOpen(p)
       /\ (sreq[p].op = "save" /\ solo = p /\ sreq[p].pc \in {"encode", "index"}) =>
             GetVolumeStateByID(sreq[p].id) = sreq[p].vs0
       /\ (sreq[p].op = "delete" /\ solo = p /\ sreq[p].pc = "drop") =>
             sreq[p].id \notin DOMAIN files

\* C18: a VolumeManager.CreateVolume called with a capacity greater than the
\* available capacity at the time of the call fails with an out-of-range
\* error and leaves no directory, state file or record of the volume.
C18_ManagerRefusesOverCapacity ==
    \A c \in Creators :
       (/\ creq[c].pc = "done"
        /\ solo = c
        /\ faults = 0
        /\ CreatedNew(c)
        /\ creq[c].capacity > creq[c].availableCapacity) =>
          /\ creq[c].code = "OutOfRange"
          /\ Clean(creq[c].volumeID)

\* C19: in every reachable state the AvailableCapacity advertised by
\* GetCapacity is not negative: a negative difference of raw capacity, total
\* volume size and metadata reserve is advertised as 0.
C19_AdvertisedNotNegative == GetCapacity >= 0

\* C20: a CreateVolume whose limiter finds no free project id returns
\* RESOURCE_EXHAUSTED, and no directory, state file or record of the volume
\* it attempted remains.
C20_PoolExhausted ==
    \A c \in Creators :
       (creq[c].pc = "done" /\ creq[c].err = "exhausted") =>
          /\ creq[c].code = "ResourceExhausted"
          /\ Clean(creq[c].volumeID)

\* C21: a record appears only by a step of the CreateVolume request that
\* carries its id, disappears only by a step of that request or of a
\* DeleteVolume request for its id, and is the same record in between; no
\* step of NodePublishVolume, NodeUnpublishVolume, GetCapacity,
\* ValidateVolumeCapabilities or NodeGetVolumeStats changes the records, the
\* indices, the total size, the state files or the quotas.
C21_RecordsImmutable ==
    [][/\ \A id \in VolumeIDs :
             /\ (id \in DOMAIN volumes /\ id \in DOMAIN volumes') =>
                   volumes'[id] = volumes[id]
             /\ (id \notin DOMAIN volumes /\ id \in DOMAIN volumes') =>
                   \E c \in Creators :
                      creq[c].volumeID = id /\ creq'[c] # creq[c]
             /\ (id \in DOMAIN volumes /\ id \notin DOMAIN volumes') =>
                   \/ \E c \in Creators :
                         creq[c].volumeID = id /\ creq'[c] # creq[c]
                   \/ \E d \in Deleters :
                         dreq[d].volID = id /\ dreq'[d] # dreq[d]
       /\ nreq' # nreq =>
             UNCHANGED <<volumes, volumeNameToID, volumesTotalSize, files,
                         limit>>]_vars

\* A volume has been published while its record exists.
C21_Witness ==
    \E n \in NodeCallers :
       /\ nreq[n].op = "NodePublishVolume"
       /\ nreq[n].code = "OK"
       /\ nreq[n].req.volumeID \in DOMAIN volumes
       /\ targets["/t/path"].mounts # << >>


\* C22: a CreateVolume request whose name, capabilities and parameters are
\* accepted passes the accessibility check when its requisite list is absent
\* or empty, and with a non-empty requisite list only when the list of
\* segment maps is the one-element list holding the node's own segment map;
\* otherwise it returns ResourceExhausted, having created no directory, no
\* record, no state file and no quota.
C22_AccessibilityCheck ==
    \A c \in Creators :
       creq[c].req # Nil =>
          LET req == creq[c].req
              rest == CreateVolumeValidate(
                         [req EXCEPT !.requirements = NoRequirements])
              requisite == req.requirements.requisite
              nonEmpty == req.requirements.present /\ Len(requisite) > 0
              own == <<(NodeNameTopologyKey :> NodeName)>>
          IN  rest = "OK" =>
                 /\ (nonEmpty /\ requisite # own) =>
                       /\ creq[c].pc = "done"
                       /\ creq[c].code = "ResourceExhausted"
                       /\ creq[c].ret = EmptyID
                       /\ volumes = EmptyMap
                       /\ volumeNameToID = EmptyMap
                       /\ volumesTotalSize = 0
                       /\ files = EmptyMap
                       /\ dirs = EmptyMap
                       /\ \A p \in ProjectIDs : limit[p] = 0
                 /\ (~nonEmpty \/ requisite = own) =>
                       creq[c].code # "ResourceExhausted"

\* A request whose requisite list names exactly the node has created its
\* volume.
C22_Witness ==
    \E c \in Creators :
       /\ creq[c].pc = "done"
       /\ creq[c].req # Nil
       /\ creq[c].req.requirements.present
       /\ creq[c].req.requirements.requisite =
             <<(NodeNameTopologyKey :> NodeName)>>
       /\ creq[c].code = "OK"
       /\ creq[c].ret \in DOMAIN volumes



\* C23 as stated: CreateVolume, ValidateVolumeCapabilities and
\* NodePublishVolume return InvalidArgument and change no state when a
\* supplied capability is unsupported, and the first two also when the
\* parameters map has a key.
C23_AsStated ==
    [][
        LET \* A capability the driver does not support.
            Unsupported(caps) ==
                \E i \in 1 .. Len(caps) :
                   \/ caps[i].mode # "SINGLE_NODE_WRITER"
                   \/ caps[i].access = "block"
                   \/ caps[i].fsType \notin {"", "xfs"}
            \* No directory, record, state file, quota or mount has changed.
            Rejected(code) ==
                /\ code = "InvalidArgument"
                /\ UNCHANGED <<volumes, volumeNameToID, volumesTotalSize, files,
                               dirs, limit, targets>>
        IN
        /\ \A c \in Creators :
              (/\ creq[c].pc = "idle"
               /\ creq'[c] # creq[c]
               /\ creq'[c].req # Nil
               /\ \/ Unsupported(creq'[c].req.caps)
                  \/ DOMAIN creq'[c].req.parameters # {})
              => /\ creq'[c].pc = "done"
                 /\ Rejected(creq'[c].code)
        /\ \A n \in NodeCallers :
              /\ (/\ nreq[n].pc = "idle"
                  /\ nreq'[n].op = "ValidateVolumeCapabilities"
                  /\ \/ Unsupported(nreq'[n].req.caps)
                     \/ DOMAIN nreq'[n].req.parameters # {})
                 => /\ nreq'[n].pc = "done"
                    /\ Rejected(nreq'[n].code)
              /\ (/\ nreq[n].pc = "idle"
                  /\ nreq'[n].op = "NodePublishVolume"
                  /\ Unsupported(nreq'[n].req.caps))
                 => /\ nreq'[n].pc = "done"
                    /\ Rejected(nreq'[n].code)
    ]_vars

\* C23, amended: the same, where ValidateVolumeCapabilities is called with
\* an empty volume id or the id of a volume that has a record; called with
\* any other id it returns NotFound, also changing no state.
C23_InvalidArgument ==
    [][
        LET \* A capability the driver does not support.
            Unsupported(caps) ==
                \E i \in 1 .. Len(caps) :
                   \/ caps[i].mode # "SINGLE_NODE_WRITER"
                   \/ caps[i].access = "block"
                   \/ caps[i].fsType \notin {"", "xfs"}
            \* No directory, record, state file, quota or mount has changed.
            Rejected(code) ==
                /\ code = "InvalidArgument"
                /\ UNCHANGED <<volumes, volumeNameToID, volumesTotalSize, files,
                               dirs, limit, targets>>
        IN
        /\ \A c \in Creators :
              (/\ creq[c].pc = "idle"
               /\ creq'[c] # creq[c]
               /\ creq'[c].req # Nil
               /\ \/ Unsupported(creq'[c].req.caps)
                  \/ DOMAIN creq'[c].req.parameters # {})
              => /\ creq'[c].pc = "done"
                 /\ Rejected(creq'[c].code)
        /\ \A n \in NodeCallers :
              /\ (/\ nreq[n].pc = "idle"
                  /\ nreq'[n].op = "ValidateVolumeCapabilities"
                  /\ \/ Unsupported(nreq'[n].req.caps)
                     \/ DOMAIN nreq'[n].req.parameters # {})
                 => /\ nreq'[n].pc = "done"
                    /\ IF \/ nreq'[n].req.volumeID = EmptyID
                          \/ nreq'[n].req.volumeID \in DOMAIN volumes
                       THEN Rejected(nreq'[n].code)
                       ELSE /\ nreq'[n].code = "NotFound"
                            /\ UNCHANGED <<volumes, volumeNameToID,
                                           volumesTotalSize, files, dirs,
                                           limit, targets>>
              /\ (/\ nreq[n].pc = "idle"
                  /\ nreq'[n].op = "NodePublishVolume"
                  /\ Unsupported(nreq'[n].req.caps))
                 => /\ nreq'[n].pc = "done"
                    /\ Rejected(nreq'[n].code)
    ]_vars

\* ValidateVolumeCapabilities has refused an ext4 capability for a volume
\* that CreateVolume created.
C23_Witness ==
    \E n \in NodeCallers :
       /\ nreq[n].op = "ValidateVolumeCapabilities"
       /\ nreq[n].pc = "done"
       /\ nreq[n].req.volumeID \in DOMAIN volumes
       /\ nreq[n].req.caps = <<VolumeCapability("SINGLE_NODE_WRITER", "mount", "ext4")>>
       /\ nreq[n].code = "InvalidArgument"



\* C24: for every NodePublishVolume request that passed validation, the
\* options handed to the mounter are, as a set, bind, ro when the request is
\* read-only, and the mount flags of the capability, none of them twice; the
\* target path exists when the mounter is called, and a successful mount has
\* put the directory of the requested volume on the requested target path.
C24_PublishMount ==
    \A n \in NodeCallers :
       (/\ nreq[n].op = "NodePublishVolume"
        /\ \/ nreq[n].pc = "mount"
           \/ nreq[n].pc = "done" /\ nreq[n].code = "OK")
       => LET req == nreq[n].req
              options == nreq[n].options
              given == {options[i] : i \in 1 .. Len(options)}
              flags == {req.mountFlags[i] : i \in 1 .. Len(req.mountFlags)}
              mounts == targets[req.targetPath].mounts
          IN  /\ given = {"bind"} \cup (IF req.readonly THEN {"ro"} ELSE {})
                            \cup flags
              /\ \A i, j \in 1 .. Len(options) :
                    options[i] = options[j] => i = j
              /\ targets[req.targetPath].exists
              /\ nreq[n].pc = "done" =>
                    /\ mounts # << >>
                    /\ mounts[Len(mounts)] = req.volumeID
                    /\ req.volumeID \in DOMAIN dirs

\* A read-only request whose flags repeat noatime and name bind again has
\* mounted its volume on a target path that did not exist.
C24_Witness ==
    \E n \in NodeCallers :
       /\ nreq[n].op = "NodePublishVolume"
       /\ nreq[n].pc = "done"
       /\ nreq[n].code = "OK"
       /\ nreq[n].req.readonly
       /\ nreq[n].req.mountFlags = <<"noatime", "bind", "noatime">>
       /\ Len(nreq[n].options) = 3
       /\ targets[nreq[n].req.targetPath].mounts = <<nreq[n].req.volumeID>>



\* C25: when NodeUnpublishVolume has returned success, nothing is mounted on
\* the target path and the target path does not exist; the path is removed
\* only after the unmount succeeded, and a path that is already absent when
\* it is to be removed does not make the request fail.
C25_UnpublishClean ==
    \A n \in NodeCallers :
       nreq[n].op = "NodeUnpublishVolume" =>
          LET t == nreq[n].req.targetPath
          IN  /\ (nreq[n].pc = "done" /\ nreq[n].code = "OK") =>
                    /\ targets[t].mounts = << >>
                    /\ ~targets[t].exists
                    /\ nreq[n].err \in {"nil", "ENOENT"}
              /\ (nreq[n].pc = "done" /\ nreq[n].err = "ENOENT") =>
                    nreq[n].code = "OK"
              /\ nreq[n].pc = "rmdir" => nreq[n].err = ""

\* NodeUnpublishVolume has unmounted and removed a target path.
C25_Witness ==
    \E n \in NodeCallers :
       /\ nreq[n].op = "NodeUnpublishVolume"
       /\ nreq[n].pc = "done"
       /\ nreq[n].code = "OK"
       /\ nreq[n].err = "nil"
       /\ ~targets[nreq[n].req.targetPath].exists
       /\ faults = 0



\* C26: when the volumes root is not an XFS filesystem, the process starts
\* and serves with the no-op limiter: once the state store is loaded and the
\* filesystem is known, run does not return an error, and the limiter of the
\* serving driver is the no-op one.
C26_ServesWithoutQuota ==
    boot.fs # "xfs" =>
       /\ boot.pc = "failed" => boot.err \in {"state", "stat"}
       /\ boot.pc = "serving" => boot.limiter = "noop"



\* C27: NodeGetInfo returns the configured node name as node id, the
\* topology {local.csi.scylladb.com/node: node name}, and 2^32 - 1 as the
\* maximum number of volumes per node (4294967295, the digits 65535 and
\* 65535 in base 2^16).
C27_NodeInfo ==
    \A n \in NodeCallers :
       (nreq[n].op = "NodeGetInfo" /\ nreq[n].pc = "done") =>
          /\ nreq[n].code = "OK"
          /\ nreq[n].info.NodeId = NodeName
          /\ nreq[n].info.AccessibleTopology =
                ("local.csi.scylladb.com/node" :> NodeName)
          /\ nreq[n].info.MaxVolumesPerNode = <<65535, 65535>>



\* C28: at most one CreateVolume request at a time is between the read of
\* the available capacity and the return of VolumeManager.CreateVolume, and
\* a request holds d.mut exactly while it is there: from before the capacity
\* is read until the request has returned, with success or with an error.
C28_CreateSection ==
    LET inSection(c) ==
            creq[c].pc \in {"count", "total", "mkdir", "newlimit", "save",
                            "saveindex", "setlimit"}
    IN  /\ \A c \in Creators : inSection(c) <=> mut = c
        /\ \A c1, c2 \in Creators : inSection(c1) /\ inSection(c2) => c1 = c2
        /\ mut # NoProcess => mut \in Creators

\* One request has left the section with an error while the other, which
\* waited for the mutex, is now inside it.
C28_Witness ==
    \E c1, c2 \in Creators :
       /\ c1 # c2
       /\ creq[c1].pc = "done"
       /\ creq[c1].code = "Internal"
       /\ creq[c2].pc = "setlimit"
       /\ mut = c2



\* C29: GetCapacity, ValidateVolumeCapabilities and NodeGetVolumeStats never
\* take or release d.mut, and none of their steps waits for it: whoever
\* holds d.mut, a caller that is idle can begin each of the three and a
\* GetCapacity that has begun can finish.
C29_ReadsNotBlocked ==
    [][\A n \in NodeCallers :
          /\ (/\ nreq'[n] # nreq[n]
              /\ nreq'[n].op \in {"GetCapacity", "ValidateVolumeCapabilities",
                                  "NodeGetVolumeStats"})
             => mut' = mut
          /\ NodeIdle(n) =>
                /\ ENABLED GetCapacityCount(n)
                /\ ENABLED ValidateVolumeCapabilities(n, PlainValidate)
                /\ ENABLED NodeGetVolumeStats(
                              n, [volumeID |-> 1, volumePath |-> "/t/path"])
          /\ nreq[n].pc = "total" => ENABLED GetCapacityTotal(n)]_vars

\* A GetCapacity began and returned while one CreateVolume request was
\* inside the section between the capacity read and its return.
C29_Witness ==
    \E n \in NodeCallers :
       /\ nreq[n].op = "GetCapacity"
       /\ nreq[n].pc = "done"
       /\ nreq[n].code = "OK"
       /\ nreq[n].during # EmptyID
       /\ mut \in Creators
       /\ creq[mut].volumeID = nreq[n].during
       /\ creq[mut].pc = "setlimit"



C31_FailedSaveLeavesIndices ==
    \A p \in StoreCallers :
       (StoreReturned(p, "save") /\ sreq[p].err # "") =>
          /\ GetVolumeStateByID(sreq[p].v.id) = sreq[p].vs0
          /\ GetTotalVolumesSize = sreq[p].total0
          /\ sreq[p].vs0 = Nil => GetVolumeStateByName(sreq[p].v.name) # sreq[p].v



\* C32: after the process was killed at any step of a CreateVolume or a
\* DeleteVolume, the next start does not fail, unless a syscall of the start
\* itself fails (stat of the root, the quotactl that restores a limit), and
\* when the limiter has restored every quota each loaded record has its
\* directory.
C32_RestartAfterCrash ==
    /\ boot.pc = "failed" => boot.err \in {"stat", "setlimit"}
    /\ (boot.pc = "restore" /\ boot.pending = {}) =>
          \A id \in DOMAIN volumes : id \in DOMAIN dirs



\* C33: when every CreateVolume and DeleteVolume request has returned,
\* with success or with an error, each project id whose block hard limit is
\* not zero is the quota id of a record of the state store.
C33_NoOrphanQuota ==
    (\A q \in Processes : Quiescent(q)) =>
       \A projectID \in ProjectIDs :
          limit[projectID] # 0 =>
             \E id \in DOMAIN volumes : volumes[id].limitID = projectID


\* A DeleteVolume has removed the limit of its volume, a CreateVolume has
\* failed, another volume keeps its limit, and no request is executing.
C33_Witness ==
    /\ \A q \in Processes : Quiescent(q)
    /\ \E d \in Deleters :
          /\ dreq[d].pc = "done"
          /\ dreq[d].code = "OK"
          /\ dreq[d].vs # Nil
          /\ limit[dreq[d].vs.limitID] = 0
    /\ \E c \in Creators : creq[c].pc = "done" /\ creq[c].code = "Internal"
    /\ \E projectID \in ProjectIDs : limit[projectID] # 0


\* C34: in every state of the state store the two indices agree: a name
\* indexed under an id belongs to a record stored under that id with that
\* name, and every stored record is the one found under its own name.
C34_IndicesAgree ==
    /\ \A name \in DOMAIN volumeNameToID :
          /\ volumeNameToID[name] \in DOMAIN volumes
          /\ volumes[volumeNameToID[name]].name = name
    /\ \A id \in DOMAIN volumes :
          GetVolumeStateByName(volumes[id].name) = volumes[id]


\* C35: a step of DeleteVolume(id) leaves the directory, the state file, the
\* record and the quota limit of every volume other than id as they were.
C35_DeleteTouchesOnlyItsVolume ==
    [][\A d \in Deleters :
          dreq'[d] # dreq[d] =>
             \A id \in VolumeIDs \ {dreq'[d].volID} :
                /\ id \in DOMAIN dirs <=> id \in DOMAIN dirs'
                /\ id \in DOMAIN files <=> id \in DOMAIN files'
                /\ GetVolumeStateByID(id) = GetVolumeStateByID(id)'
                /\ id \in DOMAIN volumes =>
                      limit'[volumes[id].limitID] = limit[volumes[id].limitID]
      ]_vars


\* C36: a step of a NodePublishVolume request whose volume id has no record
\* in the state store returns an error at once: the mounter is not called
\* and the target directory is not created.
C36_PublishNeedsRecord ==
    [][\A n \in NodeCallers :
          (/\ nreq'[n] # nreq[n]
           /\ nreq'[n].op = "NodePublishVolume"
           /\ nreq'[n].req.volumeID \notin DOMAIN volumes) =>
             /\ nreq'[n].pc = "done"
             /\ nreq'[n].code # "OK"
             /\ targets' = targets
      ]_vars


\* C37: when CreateVolume returns success for a volume it created, the hard
\* limit of the volume's project is not zero and, in bytes, is at most the
\* requested size.
C37_LimitEnforced ==
    [][\A c \in Creators :
          (/\ creq[c].pc # "done"
           /\ creq'[c].pc = "done"
           /\ creq'[c].code = "OK"
           /\ CreatedNew(c)) =>
             /\ limit'[creq'[c].limitID] # 0
             /\ limit'[creq'[c].limitID] * BasicBlockSize <= creq'[c].capacity
      ]_vars


\* C38: no interleaving of the requests deadlocks: a request that has
\* returned does not hold d.mut, and every request that has begun returns.
C38_NoDeadlock ==
    /\ [](\A c \in Creators : creq[c].pc \in {"idle", "done"} => mut # c)
    /\ \A c \in Creators :
          (creq[c].pc \notin {"idle", "done"}) ~> (creq[c].pc = "done")
    /\ \A d \in Deleters :
          (dreq[d].pc \notin {"idle", "done", "failed"})
             ~> (dreq[d].pc \in {"done", "failed"})
    /\ \A n \in NodeCallers :
          (nreq[n].pc \notin {"idle", "done"}) ~> (nreq[n].pc = "done")

\* One creator waits for d.mut, which the other creator holds, while a
\* GetCapacity is between its two reads of the store.
C38_Witness ==
    /\ \E c \in Creators :
          /\ creq[c].pc = "lock"
          /\ mut \in Creators \ {c}
    /\ \E n \in NodeCallers : nreq[n].pc = "total"


\* C39: the value GetCapacity returns is the available capacity of a single
\* state of the store: raw capacity, minus the sizes of the k records of
\* that state, minus (k + 1) reserves, for some number k of records.
C39_CapacityOfOneState ==
    \A n \in NodeCallers :
       (nreq[n].pc = "done" /\ nreq[n].op = "GetCapacity"
        /\ nreq[n].code = "OK") =>
          LET sums[k \in 0 .. MaxVolumeIDs] ==
                  IF k = 0 THEN {0}
                  ELSE {t + size : t \in sums[k - 1], size \in Sizes}
          IN  \E k \in 0 .. MaxVolumeIDs :
                 \E total \in sums[k] :
                    nreq[n].capacity = GetAvailableCapacity(k, total)


====
